---------------------------- MODULE Spec2Model ----------------------------
(***************************************************************************)
(* BespokeDocs (src/bespoke_docs.py): the declaration parser and the       *)
(* snippet-generation pipeline of the doc-comment command.                 *)
(*                                                                         *)
(* A Python string is modelled as a sequence of one-character strings, so  *)
(* that scanning, regular-expression matching, escaping and formatting are *)
(* computed character by character, as the code computes them.  A regular  *)
(* expression match is a record whose field `found` tells whether it       *)
(* matched.                                                                *)
(***************************************************************************)
EXTENDS Integers, Sequences, FiniteSets, TLC

VARIABLES
    pc,             \* position of the routine a specification runs
    \* ---- splitByCommas (src/bespoke_docs.py:63-111)
    str,            \* the argument
    idx,            \* 1-based position of `for char in str`
    out,            \* the tokens produced so far
    current,        \* the current token
    matchingQuote,  \* the closer of the open section
    insideQuotes,
    nextIsLiteral,
    \* ---- fixTabStops (src/bespoke_docs.py:285-294)
    tabOut,         \* the list `out`, rewritten in place
    tabIndex,       \* the generator counter(): its local `count`
    index,          \* 1-based position of `for index, outputLine in enumerate(out)`
    invocation,     \* how many times fixTabStops has been called
    \* ---- the host: the view the command runs on
    view,           \* the text of the buffer
    point,          \* the cursor: v.sel()[0].end(), a 0-based offset
    parser,         \* the dialect getParser chose: "js" or "coffee"
    \* ---- getDefinition (src/bespoke_docs.py:549-589)
    pos,            \* offset of the next line to read
    defI,           \* `for i in range(0, maxLines)`
    openBrackets,
    definition,
    \* ---- BespokeDocsCommand.run (src/bespoke_docs.py:140-206)
    inline,         \* the argument of run
    pluginSettings, \* the settings the command loaded
    trailingString, \* self.trailingString
    indentSpaces,   \* self.indentSpaces
    nameOverride,   \* parser.nameOverride; the empty string is None
    selfLine,       \* self.line
    runOut,         \* `out`, what parse returned
    snippet,        \* what generateSnippet returned
    written,        \* the contents the host was asked to insert
    writes,         \* how many times write(view, str) was called
    \* ---- alignTags (src/bespoke_docs.py:208-261)
    alignLines,     \* the list `out` alignTags is given
    alignedOnce,    \* what alignTags returned
    alignedTwice,   \* what alignTags returned when given its own result
    \* ---- getMatchingNotations.checkMatch (src/bespoke_docs.py:537-547)
    noteRule,       \* the notation rule checkMatch is given
    noteName,       \* the name getMatchingNotations is given
    noteMatched,    \* whether checkMatch returned a match
    \* ---- the spacing loops of createSnippet (src/bespoke_docs.py:299-319)
    spaceLines,     \* the list `out` as createSnippet received it
    spaceOut,       \* the list `out`, which the loop inserts into
    spaceIdx,       \* the position of the list iterator behind enumerate(out)
    spaceLastTag,   \* lastTag: <<>> is None, <<t>> is the tag name t
    spaceLastIsTag  \* lastLineIsTag

splitVars == <<str, idx, out, current, matchingQuote, insideQuotes, nextIsLiteral>>
tabVars == <<tabOut, tabIndex, index, invocation>>
hostVars == <<view, point, parser>>
defVars == <<pos, defI, openBrackets, definition>>
runVars == <<inline, pluginSettings, trailingString, indentSpaces, nameOverride,
             selfLine, runOut, snippet, written, writes>>
alignVars == <<alignLines, alignedOnce, alignedTwice>>
noteVars == <<noteRule, noteName, noteMatched>>
spaceVars == <<spaceLines, spaceOut, spaceIdx, spaceLastTag, spaceLastIsTag>>
vars == <<pc, splitVars, tabVars, hostVars, defVars, runVars, alignVars, noteVars, spaceVars>>

\* what an action of one routine leaves alone
notSplit == <<tabVars, hostVars, defVars, runVars, alignVars, noteVars, spaceVars>>
notTabs == <<splitVars, hostVars, defVars, runVars, alignVars, noteVars, spaceVars>>
notDef == <<splitVars, tabVars, runVars, alignVars, noteVars, spaceVars>>
notRun == <<splitVars, tabVars, defVars, alignVars, noteVars, spaceVars>>
notAlign == <<splitVars, tabVars, hostVars, defVars, noteVars, spaceVars>>
notNote == <<splitVars, tabVars, hostVars, defVars, runVars, alignVars, spaceVars>>
notSpace == <<splitVars, tabVars, hostVars, defVars, alignVars, noteVars>>

\* the variables of the routines a specification does not run
SplitIdle ==
    /\ str = <<>> /\ idx = 0 /\ out = <<>> /\ current = <<>>
    /\ matchingQuote = "" /\ insideQuotes = FALSE /\ nextIsLiteral = FALSE

TabsIdle == tabOut = <<>> /\ tabIndex = 0 /\ index = 0 /\ invocation = 0

HostIdle == view = <<>> /\ point = 0 /\ parser = ""

DefIdle == pos = 0 /\ defI = 0 /\ openBrackets = 0 /\ definition = <<>>

RunIdle ==
    /\ inline = FALSE /\ pluginSettings = <<>> /\ trailingString = <<>>
    /\ indentSpaces = <<>> /\ nameOverride = <<>> /\ selfLine = <<>>
    /\ runOut = <<>> /\ snippet = <<>> /\ written = <<>> /\ writes = 0

AlignIdle == alignLines = <<>> /\ alignedOnce = <<>> /\ alignedTwice = <<>>

NoteIdle == noteRule = <<>> /\ noteName = <<>> /\ noteMatched = FALSE

SpaceIdle ==
    /\ spaceLines = <<>> /\ spaceOut = <<>> /\ spaceIdx = 0
    /\ spaceLastTag = <<>> /\ spaceLastIsTag = FALSE

-----------------------------------------------------------------------------
(* Bounds of the model.                                                    *)

\* longest enumerated argument string of splitByCommas
MaxStrLen == 4

\* most lines of an enumerated line sequence handed to fixTabStops
MaxTabLines == 3

\* most consecutive invocations of fixTabStops
MaxInvocations == 2

-----------------------------------------------------------------------------
(* Characters and strings.                                                 *)

\* a failed re.match / re.search
NoMatch == [found |-> FALSE]

\* what str.strip() and the regex class \s remove: space and tab
WhiteSpace == {" ", "\t"}

StringsUpTo(A, n) == UNION {[1..k -> A] : k \in 0..n}

\* the concatenation of seqs[a..b], by halves
RECURSIVE concatRange(_, _, _)
concatRange(seqs, a, b) ==
    IF a > b THEN <<>>
    ELSE IF a = b THEN seqs[a]
    ELSE LET mid == (a + b) \div 2 IN
         concatRange(seqs, a, mid) \o concatRange(seqs, mid + 1, b)

concatAll(seqs) == concatRange(seqs, 1, Len(seqs))

\* the least and the greatest of a non-empty set of integers
least(S) == CHOOSE x \in S : \A y \in S : x <= y
greatest(S) == CHOOSE x \in S : \A y \in S : x >= y

\* a set of integers as the sequence of its elements in ascending order
ascending(S) ==
    [j \in 1..Cardinality(S) |-> CHOOSE q \in S : Cardinality({c \in S : c < q}) = j - 1]

\* the pieces of s between the positions cuts, which the pieces leave out
cutAt(s, cuts) ==
    LET at == <<0>> \o ascending(cuts) \o <<Len(s) + 1>> IN
    [j \in 1..(Cardinality(cuts) + 1) |-> SubSeq(s, at[j] + 1, at[j + 1] - 1)]

\* the positions of s that str.strip() keeps from
kept(s) == {k \in 1..Len(s) : s[k] \notin WhiteSpace}

lstrip(s) == IF kept(s) = {} THEN <<>> ELSE SubSeq(s, least(kept(s)), Len(s))

rstrip(s) == IF kept(s) = {} THEN <<>> ELSE SubSeq(s, 1, greatest(kept(s)))

\* str.strip()
strip(s) == rstrip(lstrip(s))

\* str.find(char) for a one-character needle: 0-based index, -1 when absent
find(s, char) ==
    IF \E i \in 1..Len(s) : s[i] = char
    THEN (CHOOSE i \in 1..Len(s) : s[i] = char /\ \A j \in 1..(i - 1) : s[j] # char) - 1
    ELSE -1

\* sep.join(parts)
join(sep, parts) ==
    concatAll([k \in 1..Len(parts) |-> IF k = 1 THEN parts[k] ELSE sep \o parts[k]])

-----------------------------------------------------------------------------
(* splitByCommas                                                           *)

openQuotes == <<"\"", "'", "<", "(", "{">>
closeQuotes == <<"\"", "'", ">", ")", "}">>

\* the locals of splitByCommas before the loop
splitLocals ==
    [out |-> <<>>, current |-> <<>>, matchingQuote |-> "",
     insideQuotes |-> FALSE, nextIsLiteral |-> FALSE]

\* one iteration of `for char in str`, with a backslash escaping everywhere
splitStepEscapeEverywhere(st, char) ==
    IF st.nextIsLiteral
    THEN [st EXCEPT !.current = Append(@, char), !.nextIsLiteral = FALSE]
    ELSE IF char = "\\"
    THEN [st EXCEPT !.nextIsLiteral = TRUE]
    ELSE IF st.insideQuotes
    THEN [st EXCEPT !.current = Append(@, char),
                    !.insideQuotes = (char # st.matchingQuote)]
    ELSE IF char = ","
    THEN [st EXCEPT !.out = Append(@, strip(st.current)), !.current = <<>>]
    ELSE LET quoteIndex == find(openQuotes, char) IN
         IF quoteIndex > -1
         THEN [st EXCEPT !.current = Append(@, char),
                         !.matchingQuote = closeQuotes[quoteIndex + 1],
                         !.insideQuotes = TRUE]
         ELSE [st EXCEPT !.current = Append(@, char)]

\* one iteration of `for char in str`
splitStep(st, char) ==
    IF st.nextIsLiteral
    THEN [st EXCEPT !.current = Append(@, char), !.nextIsLiteral = FALSE]
    ELSE IF st.insideQuotes
    THEN IF char = "\\"
         THEN [st EXCEPT !.nextIsLiteral = TRUE]
         ELSE [st EXCEPT !.current = Append(@, char),
                         !.insideQuotes = (char # st.matchingQuote)]
    ELSE IF char = ","
    THEN [st EXCEPT !.out = Append(@, strip(st.current)), !.current = <<>>]
    ELSE LET quoteIndex == find(openQuotes, char) IN
         IF quoteIndex > -1
         THEN [st EXCEPT !.current = Append(@, char),
                         !.matchingQuote = closeQuotes[quoteIndex + 1],
                         !.insideQuotes = TRUE]
         ELSE [st EXCEPT !.current = Append(@, char)]

\* the loop over the characters s[a..b] from the locals st, by halves
RECURSIVE splitLoop(_, _, _, _)
splitLoop(st, s, a, b) ==
    IF a > b THEN st
    ELSE IF a = b THEN splitStep(st, s[a])
    ELSE LET mid == (a + b) \div 2
             left == splitLoop(st, s, a, mid)
         IN  \* the first half is evaluated before the second half starts
             IF left.out = <<>> /\ left.current = <<>>
             THEN splitLoop(left, s, mid + 1, b)
             ELSE splitLoop(left, s, mid + 1, b)

\* splitByCommas as a function of its argument
splitByCommas(s) ==
    IF s = <<>> THEN <<>>
    ELSE LET st == splitLoop(splitLocals, s, 1, Len(s)) IN Append(st.out, strip(st.current))

(* The same function, one statement at a time.                             *)

SplitAlphabet == {"a", ",", " ", "(", ")", "\"", "\\"}

\* the docstring's example: foo, bar(baz, quux), fwip = "hey, hi"
DocExample ==
    <<"f", "o", "o", ",", " ", "b", "a", "r", "(", "b", "a", "z", ",", " ",
      "q", "u", "u", "x", ")", ",", " ", "f", "w", "i", "p", " ", "=", " ",
      "\"", "h", "e", "y", ",", " ", "h", "i", "\"">>

SplitExamples ==
    { DocExample,
      <<"a", "(", "b", "(", "c", ")", ",", "d", ")">>,
      <<"{", "a", ",", "b", "}", ",", "c">>,
      <<"M", "<", "K", ",", "V", ">", ",", "'", ",", "'">>,
      <<"(", "{", "a", ",", "b", "}", ")", ",", "c">>,
      <<"(", "\"", "\\", "a", "\"", ")">>,
      <<"\"", "\\", "\"", ",", "\"", ",", "x">>,
      <<"\\", "(", ",", "a">> }

SplitInputs == StringsUpTo(SplitAlphabet, MaxStrLen) \cup SplitExamples

InitSplit ==
    /\ pc = "split"
    /\ TabsIdle /\ HostIdle /\ DefIdle /\ RunIdle /\ AlignIdle /\ NoteIdle /\ SpaceIdle
    /\ str \in SplitInputs
    /\ idx = 1
    /\ out = splitLocals.out
    /\ current = splitLocals.current
    /\ matchingQuote = splitLocals.matchingQuote
    /\ insideQuotes = splitLocals.insideQuotes
    /\ nextIsLiteral = splitLocals.nextIsLiteral

\* `if not str: return out`
SplitReturnEmpty ==
    /\ pc = "split" /\ str = <<>>
    /\ pc' = "split_done"
    /\ UNCHANGED <<splitVars, notSplit>>

\* one iteration of the loop
SplitChar ==
    /\ pc = "split" /\ str # <<>> /\ idx <= Len(str)
    /\ LET st == splitStep([out |-> out, current |-> current,
                            matchingQuote |-> matchingQuote,
                            insideQuotes |-> insideQuotes,
                            nextIsLiteral |-> nextIsLiteral], str[idx])
       IN /\ out' = st.out
          /\ current' = st.current
          /\ matchingQuote' = st.matchingQuote
          /\ insideQuotes' = st.insideQuotes
          /\ nextIsLiteral' = st.nextIsLiteral
    /\ idx' = idx + 1
    /\ UNCHANGED <<pc, str, notSplit>>

\* `out.append(current.strip()); return out`
SplitReturn ==
    /\ pc = "split" /\ str # <<>> /\ idx > Len(str)
    /\ out' = Append(out, strip(current))
    /\ pc' = "split_done"
    /\ UNCHANGED <<str, idx, current, matchingQuote, insideQuotes, nextIsLiteral, notSplit>>

NextSplit == SplitReturnEmpty \/ SplitChar \/ SplitReturn

SpecSplit == InitSplit /\ [][NextSplit]_vars

-----------------------------------------------------------------------------
(* fixTabStops                                                             *)

DigitChars == <<"0", "1", "2", "3", "4", "5", "6", "7", "8", "9">>
Digits == {DigitChars[i] : i \in 1..10}

\* "%d" % n
RECURSIVE decimal(_)
decimal(n) ==
    IF n < 10 THEN <<DigitChars[n + 1]>>
    ELSE decimal(n \div 10) \o <<DigitChars[(n % 10) + 1]>>

\* the first position q >= p of s with s[q] not in S (Len(s) + 1 when none)
span(s, p, S) ==
    LET stops == {q \in p..Len(s) : s[q] \notin S} IN
    IF p > Len(s) THEN p ELSE IF stops = {} THEN Len(s) + 1 ELSE least(stops)

\* the first position q >= p of s with s[q] in S (Len(s) + 1 when none)
spanNot(s, p, S) ==
    LET stops == {q \in p..Len(s) : s[q] \in S} IN
    IF p > Len(s) THEN p ELSE IF stops = {} THEN Len(s) + 1 ELSE least(stops)

\* counter(): `count = 0`
counter == 0

\* next(tabIndex) with the yield before the increment
counterNextYieldFirst(count) == [count |-> count + 1, value |-> count]

\* next(tabIndex): `count += 1; yield(count)`
counterNext(count) == [count |-> count + 1, value |-> count + 1]

\* the regex (\$\{)\d+(:[^}]+\}) matched at position p of line: where group 2
\* starts and where the match ends
tabStopMatch(line, p) ==
    IF p + 1 <= Len(line) /\ line[p] = "$" /\ line[p + 1] = "{"
    THEN LET colon == span(line, p + 2, Digits) IN
         IF colon > p + 2 /\ colon <= Len(line) /\ line[colon] = ":"
         THEN LET close == spanNot(line, colon + 1, {"}"}) IN
              IF close > colon + 1 /\ close <= Len(line)
              THEN [found |-> TRUE, start |-> p, colon |-> colon, end |-> close]
              ELSE NoMatch
         ELSE NoMatch
    ELSE NoMatch

\* the first match at or after position p of line
nextTabStop(line, p) ==
    LET starts == {q \in p..Len(line) : tabStopMatch(line, q).found} IN
    IF starts = {} THEN NoMatch ELSE tabStopMatch(line, least(starts))

\* re.sub(..., swapTabs, outputLine) from position p on, with the generator at
\* count: the rewritten text and the generator afterwards; the text between
\* two matches is copied
RECURSIVE subTabStops(_, _, _)
RECURSIVE swapTabs(_, _, _, _, _)

\* swapTabs(m) on the match m, n being next(tabIndex), and the rest of the line
swapTabs(m, n, line, p, count) ==
    IF ~m.found THEN [text |-> SubSeq(line, p, Len(line)), count |-> count]
    ELSE LET rest == subTabStops(line, m.end + 1, n.count) IN
         [text |-> SubSeq(line, p, m.start - 1) \o <<"$", "{">> \o decimal(n.value)
                      \o SubSeq(line, m.colon, m.end) \o rest.text,
          count |-> rest.count]

subTabStops(line, p, count) ==
    swapTabs(nextTabStop(line, p), counterNext(count), line, p, count)

RECURSIVE fixTabStopsFrom(_, _, _)
fixTabStopsFrom(lines, i, count) ==
    IF i > Len(lines) THEN lines
    ELSE LET r == subTabStops(lines[i], 1, count) IN
         fixTabStopsFrom([lines EXCEPT ![i] = r.text], i + 1, r.count)

\* fixTabStops as a function of its argument
fixTabStops(lines) == fixTabStopsFrom(lines, 1, counter)

(* Lines as the formatters write them (formatFunction, formatVar,          *)
(* getTypeInfo, the yield tag): every tab-stop is ${index:text} with a     *)
(* non-empty text, provisionally numbered 1; and two tags as a             *)
(* configuration may add them, with indices of its own.                    *)

\* ${1:[foo description]}
LineDescription ==
    <<"$", "{", "1", ":", "[", "f", "o", "o", " ", "d", "e", "s", "c", "r",
      "i", "p", "t", "i", "o", "n", "]", "}">>

\* @param {${1:[type]}} bar ${1:[description]}
LineParam ==
    <<"@", "p", "a", "r", "a", "m", " ", "{", "$", "{", "1", ":", "[", "t",
      "y", "p", "e", "]", "}", "}", " ", "b", "a", "r", " ", "$", "{", "1",
      ":", "[", "d", "e", "s", "c", "r", "i", "p", "t", "i", "o", "n", "]",
      "}">>

\* @return {${1:[type]}} ${1:[description]}
LineReturn ==
    <<"@", "r", "e", "t", "u", "r", "n", " ", "{", "$", "{", "1", ":", "[",
      "t", "y", "p", "e", "]", "}", "}", " ", "$", "{", "1", ":", "[", "d",
      "e", "s", "c", "r", "i", "p", "t", "i", "o", "n", "]", "}">>

\* @private
LinePrivate ==
    <<"@", "p", "r", "i", "v", "a", "t", "e">>

\* the description "a}b" typed after the comment opener: ${1:a\}b}
LineOverride ==
    <<"$", "{", "1", ":", "a", "\\", "}", "b", "}">>

\* @fires ${12:[event]}
LineFires ==
    <<"@", "f", "i", "r", "e", "s", " ", "$", "{", "1", "2", ":", "[", "e",
      "v", "e", "n", "t", "]", "}">>

TabLinePool ==
    {LineDescription, LineParam, LineReturn, LinePrivate, LineOverride, LineFires}

\* description, five parameters and the return line: thirteen tab-stops
TabExamples ==
    { <<LineDescription, LineParam, LineParam, LineParam, LineParam, LineParam,
        LineReturn>> }

TabInputs ==
    UNION {[1..k -> TabLinePool] : k \in 1..MaxTabLines} \cup TabExamples

InitTabs ==
    /\ pc = "tabs_call"
    /\ SplitIdle /\ HostIdle /\ DefIdle /\ RunIdle /\ AlignIdle /\ NoteIdle /\ SpaceIdle
    /\ tabOut \in TabInputs
    /\ tabIndex = 0
    /\ index = 0
    /\ invocation = 1

\* `tabIndex = counter()`
FixTabStopsEnter ==
    /\ pc = "tabs_call"
    /\ tabIndex' = counter
    /\ index' = 1
    /\ pc' = "tabs_loop"
    /\ UNCHANGED <<tabOut, invocation, notTabs>>

\* `out[index] = re.sub(..., swapTabs, outputLine)`
FixTabStopsLine ==
    /\ pc = "tabs_loop" /\ index <= Len(tabOut)
    /\ LET r == subTabStops(tabOut[index], 1, tabIndex) IN
          /\ tabOut' = [tabOut EXCEPT ![index] = r.text]
          /\ tabIndex' = r.count
    /\ index' = index + 1
    /\ UNCHANGED <<pc, invocation, notTabs>>

\* `return out`
FixTabStopsReturn ==
    /\ pc = "tabs_loop" /\ index > Len(tabOut)
    /\ pc' = "tabs_done"
    /\ UNCHANGED <<tabVars, notTabs>>

\* the command runs again, on another line sequence
FixTabStopsAgain ==
    /\ pc = "tabs_done" /\ invocation < MaxInvocations
    /\ tabOut' \in TabInputs
    /\ invocation' = invocation + 1
    /\ pc' = "tabs_call"
    /\ UNCHANGED <<tabIndex, index, notTabs>>

NextTabs == FixTabStopsEnter \/ FixTabStopsLine \/ FixTabStopsReturn \/ FixTabStopsAgain

SpecTabs == InitTabs /\ [][NextTabs]_vars

-----------------------------------------------------------------------------
(* Regular expressions (Python's re).                                      *)
(*                                                                         *)
(* A pattern is a tree of records; reM lists, in the order the             *)
(* backtracking matcher of re tries them, every way the pattern matches    *)
(* string s from offset p (0-based, as Python's), each with the offset     *)
(* where the match ends and the spans of the groups it set.  The first     *)
(* element is the match re reports.                                        *)

LowerCase ==
    {"a", "b", "c", "d", "e", "f", "g", "h", "i", "j", "k", "l", "m",
     "n", "o", "p", "q", "r", "s", "t", "u", "v", "w", "x", "y", "z"}

UpperCase ==
    {"A", "B", "C", "D", "E", "F", "G", "H", "I", "J", "K", "L", "M",
     "N", "O", "P", "Q", "R", "S", "T", "U", "V", "W", "X", "Y", "Z"}

\* [a-zA-Z]
Letters == LowerCase \cup UpperCase

\* \s
Space == {" ", "\t", "\n", "\r", "\f"}

\* \w
WordChars == Letters \cup Digits \cup {"_"}

Chr(S) == [op |-> "chr", set |-> S, neg |-> FALSE]
NotChr(S) == [op |-> "chr", set |-> S, neg |-> TRUE]
\* .
Dot == NotChr({"\n"})
Lit(s) == [op |-> "lit", s |-> s]
Cat(args) == [op |-> "cat", args |-> args]
Alt(args) == [op |-> "alt", args |-> args]
\* x*  x+  x?  x*?
Star(x) == [op |-> "rep", arg |-> x, min |-> 0, many |-> TRUE, greedy |-> TRUE]
Plus(x) == [op |-> "rep", arg |-> x, min |-> 1, many |-> TRUE, greedy |-> TRUE]
Opt(x) == [op |-> "rep", arg |-> x, min |-> 0, many |-> FALSE, greedy |-> TRUE]
LazyStar(x) == [op |-> "rep", arg |-> x, min |-> 0, many |-> TRUE, greedy |-> FALSE]
\* (?P<name>x), or (x) with the group's number as its name
Grp(name, x) == [op |-> "grp", name |-> name, arg |-> x]
\* ^  $  \b
Bol == [op |-> "bol"]
Eol == [op |-> "eol"]
WordB == [op |-> "wb"]

GroupNames == {"1", "2", "name", "name1", "name2", "generator", "args", "args2", "val"}

Unset == [a |-> -1, b |-> -1]
noGroups == [g \in GroupNames |-> Unset]

isWord(s, k) == k >= 1 /\ k <= Len(s) /\ s[k] \in WordChars

\* how many characters from offset p on are (neg: are not) in set
runOf(s, p, set, neg) ==
    CHOOSE n \in 0..(Len(s) - p) :
        /\ \A j \in 1..n : (s[p + j] \in set) # neg
        /\ n = Len(s) - p \/ ((s[p + n + 1] \in set) = neg)

RECURSIVE reM(_, _, _, _)
RECURSIVE reCat(_, _, _, _, _)
RECURSIVE reRep(_, _, _, _, _)

reM(x, s, p, caps) ==
    CASE x.op = "chr" ->
           IF p < Len(s) /\ ((s[p + 1] \in x.set) # x.neg)
           THEN <<[end |-> p + 1, caps |-> caps]>> ELSE <<>>
      [] x.op = "lit" ->
           IF p + Len(x.s) <= Len(s) /\ SubSeq(s, p + 1, p + Len(x.s)) = x.s
           THEN <<[end |-> p + Len(x.s), caps |-> caps]>> ELSE <<>>
      [] x.op = "cat" -> reCat(x.args, 1, s, p, caps)
      [] x.op = "alt" ->
           concatAll([k \in 1..Len(x.args) |-> reM(x.args[k], s, p, caps)])
      [] x.op = "rep" ->
           IF x.arg.op = "chr" /\ x.many
           THEN \* a repeated character class: the ends of its run, the
                \* longest first when greedy
                LET n == runOf(s, p, x.arg.set, x.arg.neg) IN
                [j \in 1..(n - x.min + 1) |->
                    [end |-> IF x.greedy THEN p + n - j + 1 ELSE p + x.min + j - 1,
                     caps |-> caps]]
           ELSE reRep(x, 0, s, p, caps)
      [] x.op = "grp" ->
           LET rs == reM(x.arg, s, p, caps) IN
           [j \in 1..Len(rs) |->
               [end |-> rs[j].end,
                caps |-> [rs[j].caps EXCEPT ![x.name] = [a |-> p, b |-> rs[j].end]]]]
      [] x.op = "bol" -> IF p = 0 THEN <<[end |-> p, caps |-> caps]>> ELSE <<>>
      [] x.op = "eol" -> IF p = Len(s) THEN <<[end |-> p, caps |-> caps]>> ELSE <<>>
      [] x.op = "wb" ->
           IF isWord(s, p) # isWord(s, p + 1)
           THEN <<[end |-> p, caps |-> caps]>> ELSE <<>>

\* args[k..] from offset p: for each way args[k] matches, the ways of the rest
reCat(args, k, s, p, caps) ==
    IF k > Len(args) THEN <<[end |-> p, caps |-> caps]>>
    ELSE LET rs == reM(args[k], s, p, caps) IN
         concatAll([j \in 1..Len(rs) |-> reCat(args, k + 1, s, rs[j].end, rs[j].caps)])

\* x after count repetitions: one more (an empty repetition is not taken), or stop
reRep(x, count, s, p, caps) ==
    LET rs == reM(x.arg, s, p, caps)
        more == IF count >= 1 /\ ~x.many THEN <<>>
                ELSE concatAll([j \in 1..Len(rs) |->
                         IF rs[j].end > p
                         THEN reRep(x, count + 1, s, rs[j].end, rs[j].caps)
                         ELSE <<>>])
        here == IF count >= x.min THEN <<[end |-> p, caps |-> caps]>> ELSE <<>>
    IN IF x.greedy THEN more \o here ELSE here \o more

\* the match re reports, given the ways rs of matching from offset p
firstOf(rs, p) ==
    IF rs = <<>> THEN NoMatch
    ELSE [found |-> TRUE, start |-> p, end |-> rs[1].end, caps |-> rs[1].caps]

\* re.match(x, s) from offset p
matchAt(x, s, p) == firstOf(reM(x, s, p, noGroups), p)

match(x, s) == matchAt(x, s, 0)

\* the match at the first offset of a..b where x matches, by halves
RECURSIVE searchIn(_, _, _, _)
searchIn(x, s, a, b) ==
    IF a > b THEN NoMatch
    ELSE IF a = b THEN matchAt(x, s, a)
    ELSE LET mid == (a + b) \div 2
             left == searchIn(x, s, a, mid)
         IN IF left.found THEN left ELSE searchIn(x, s, mid + 1, b)

searchFrom(x, s, p) == searchIn(x, s, p, Len(s))

\* re.search(x, s)
search(x, s) == searchFrom(x, s, 0)

\* m.group(name): the text of a group, the empty string when it is not set
\* (every use in the code reads it through `or ''`, or tests its truth)
group(m, s, name) ==
    IF m.caps[name].a = -1 THEN <<>>
    ELSE SubSeq(s, m.caps[name].a + 1, m.caps[name].b)

\* the non-overlapping matches of x in s, left to right (re.finditer)
RECURSIVE finditer(_, _, _)
RECURSIVE matchesFrom(_, _, _)

\* the match m, when there is one, and the matches after it
matchesFrom(m, x, s) ==
    IF ~m.found THEN <<>>
    ELSE <<m>> \o finditer(x, s, IF m.end > m.start THEN m.end ELSE m.end + 1)

finditer(x, s, p) == matchesFrom(searchFrom(x, s, p), x, s)

\* re.sub(x, '', s)
RECURSIVE removeAll(_, _, _)
removeAll(ms, s, p) ==
    IF ms = <<>> THEN SubSeq(s, p + 1, Len(s))
    ELSE SubSeq(s, p + 1, Head(ms).start) \o removeAll(Tail(ms), s, Head(ms).end)

subEmpty(x, s) == removeAll(finditer(x, s, 0), s, 0)

-----------------------------------------------------------------------------
(* The host's view (the Sublime Text API the code calls).                  *)

\* view.size()
size(v) == Len(v)

\* the offset just after the last newline before offset p
lineBegin(v, p) == greatest({0} \cup {q \in 1..p : v[q] = "\n"})

\* the offset of the first newline from offset p on, or of the end of the buffer
lineEnd(v, p) ==
    IF p >= Len(v) THEN p ELSE least({Len(v)} \cup {q \in p..(Len(v) - 1) : v[q + 1] = "\n"})

\* view.line(point): the region of the line that holds point, its newline excluded
viewLine(v, p) == [a |-> lineBegin(v, p), b |-> lineEnd(v, p)]

\* view.substr(region)
substr(v, region) == SubSeq(v, region.a + 1, region.b)

\* read_line(view, point); `none` is the bare `return`
read_line(v, p) ==
    IF p >= size(v) THEN [none |-> TRUE, text |-> <<>>]
    ELSE [none |-> FALSE, text |-> substr(v, viewLine(v, p))]

-----------------------------------------------------------------------------
(* The parsers' settings.                                                  *)

\* [a-zA-Z_$]
IdentStart == Letters \cup {"_", "$"}

\* '[a-zA-Z_$][a-zA-Z_$0-9]*'
identifier == Cat(<<Chr(IdentStart), Star(Chr(IdentStart \cup Digits))>>)

kwFunction == <<"f", "u", "n", "c", "t", "i", "o", "n">>

\* BespokeDocsJavascript: settings['fnOpener']
fnOpenerJs ==
    Alt(<<
        Cat(<<Lit(kwFunction), Star(Chr(Space \cup {"*"})), Opt(identifier),
              Star(Chr(Space)), Lit(<<"(">>)>>),
        Alt(<<identifier,
              Cat(<<Lit(<<"(">>), Star(Dot), Lit(<<")">>), Star(Chr(Space)),
                    Lit(<<"=", ">">>)>>)>>),
        Cat(<<identifier, Star(Chr(Space)), Lit(<<"(">>), Star(Dot), Lit(<<")">>),
              Star(Chr(Space)), Lit(<<"{">>)>>)
    >>)

\* self.settings of the two parsers; fnOpener is None for CoffeeScript
settings(p) ==
    [hasFnOpener |-> p # "coffee",
     fnOpener |-> fnOpenerJs,
     commentCloser |-> IF p = "coffee" THEN <<"#", "#", "#">> ELSE <<" ", "*", "/">>]

-----------------------------------------------------------------------------
(* getDefinition                                                           *)

\* `maxLines = 25  # don't go further than this`
maxLines == 25

\* a loop whose range never ends
inRangeUnbounded(k, n) == TRUE

\* `for i in range(0, n)` runs its body for i
inRange(k, n) == k < n

\* r"//.*"
lineComment == Cat(<<Lit(<<"/", "/">>), Star(Dot)>>)

\* r"/\*.*\*/"
blockComment == Cat(<<Lit(<<"/", "*">>), Star(Dot), Lit(<<"*", "/">>)>>)

\* `# strip comments`
stripComments(line) == subEmpty(blockComment, subEmpty(lineComment, line))

\* reduce(countBrackets, re.findall('[()]', s), total)
countBrackets(total, s) ==
    total + Cardinality({k \in 1..Len(s) : s[k] = "("})
          - Cardinality({k \in 1..Len(s) : s[k] = ")"})

\* the first line is searched from the start of the line: the opener is ignored
searchForBracketsWholeLine(line, def, p) == line

\* the line from the start of the opener on, when the opener is found
fromOpener(opener, line) ==
    IF opener.found THEN SubSeq(line, opener.start + 1, Len(line)) ELSE line

\* the part of the line whose brackets are counted
searchForBrackets(line, def, p) ==
    IF def = <<>> /\ settings(p).hasFnOpener
    THEN fromOpener(search(settings(p).fnOpener, line), line)
    ELSE line

\* the locals after a line has been read, stripped and counted
defCounted(st, text, line, count) ==
    [pos |-> st.pos + Len(text) + 1,
     openBrackets |-> count,
     definition |-> st.definition \o line,
     done |-> count = 0]

\* the loop's body from `# strip comments` on
defLine(st, text, line, p) ==
    defCounted(st, text, line,
               countBrackets(st.openBrackets, searchForBrackets(line, st.definition, p)))

\* the loop's body after read_line
defRead(st, r, p) ==
    IF r.none THEN [st EXCEPT !.done = TRUE]
    ELSE defLine(st, r.text, stripComments(r.text), p)

\* one iteration of the loop on the locals st = [pos, openBrackets,
\* definition, done]; done is the `break`
defStep(st, v, p) == defRead(st, read_line(v, st.pos), p)

RECURSIVE defLoop(_, _, _, _)
defLoop(st, k, v, p) ==
    IF st.done \/ ~inRange(k, maxLines) THEN st.definition
    ELSE defLoop(defStep(st, v, p), k + 1, v, p)

\* getDefinition(view, pos) of the parser p
getDefinition(v, start, p) ==
    defLoop([pos |-> start, openBrackets |-> 0, definition |-> <<>>, done |-> FALSE],
            0, v, p)

-----------------------------------------------------------------------------
(* getDefinition, one statement at a time, on enumerated buffers.          *)

\* function foo(bar,
DefLineFunctionOpen ==
    <<"f", "u", "n", "c", "t", "i", "o", "n", " ", "f", "o", "o", "(", "b",
      "a", "r", ",">>

\*   baz) {
DefLineClose ==
    <<" ", " ", "b", "a", "z", ")", " ", "{">>

\* (function (a,
DefLineWrapped ==
    <<"(", "f", "u", "n", "c", "t", "i", "o", "n", " ", "(", "a", ",">>

\* });
DefLineEnd ==
    <<"}", ")", ";">>

\* a blank line
DefLineBlank ==
    <<>>

\* x = (1 // )
DefLineLineComment ==
    <<"x", " ", "=", " ", "(", "1", " ", "/", "/", " ", ")">>

\* f(a /* ( */, b)
DefLineBlockComment ==
    <<"f", "(", "a", " ", "/", "*", " ", "(", " ", "*", "/", ",", " ", "b",
      ")">>

\* ((a) => 1)
DefLineArrow ==
    <<"(", "(", "a", ")", " ", "=", ">", " ", "1", ")">>

\* (function (a) {
DefLineWrappedClosed ==
    <<"(", "f", "u", "n", "c", "t", "i", "o", "n", " ", "(", "a", ")", " ", "{">>

DefLinePool ==
    {DefLineFunctionOpen, DefLineClose, DefLineWrapped, DefLineWrappedClosed, DefLineEnd,
     DefLineBlank, DefLineLineComment, DefLineBlockComment, DefLineArrow}

\* test_params_across_multiple_lines_should_be_identified: function foo(bar,
TestLine1 ==
    <<"f", "u", "n", "c", "t", "i", "o", "n", " ", "f", "o", "o", "(", "b",
      "a", "r", ",">>

\*              baz,
TestLine2 ==
    <<" ", " ", " ", " ", " ", " ", " ", " ", " ", " ", " ", " ", " ", "b",
      "a", "z", ",">>

\*              quux
TestLine3 ==
    <<" ", " ", " ", " ", " ", " ", " ", " ", " ", " ", " ", " ", " ", "q",
      "u", "u", "x">>

\*              ) {
TestLine4 ==
    <<" ", " ", " ", " ", " ", " ", " ", " ", " ", " ", " ", " ", " ", ")",
      " ", "{">>

\* the comment opener the command is run after
CommentOpener ==
    <<"/", "*", "*">>

\* '\n'.join(lines)
joinLines(lines) == join(<<"\n">>, lines)

\* the view of test_params_across_multiple_lines_should_be_identified
MultiLineTest ==
    joinLines(<<CommentOpener, TestLine1, TestLine2, TestLine3, TestLine4>>)

\* x = (function (a,
DefLineAssignedWrapped == <<"x", " ", "=", " ", "(", "f", "u", "n", "c", "t", "i", "o", "n",
      " ", "(", "a", ",">>

\* a wrapped declaration that is assigned: x = (function (a, / baz) { / });
AssignedWrappedTest ==
    joinLines(<<CommentOpener, DefLineAssignedWrapped, DefLineClose, DefLineEnd>>)

\* f( and n lines a, and then the closing line: a declaration of n + 2 lines
LongDeclaration(n) ==
    joinLines(<<CommentOpener, <<"f", "(">> >> \o [k \in 1..n |-> <<"a", ",">>]
              \o << <<")">> >>)

\* most lines of an enumerated buffer
MaxDefLines == 3

DefExamples ==
    { MultiLineTest,
      MultiLineTest \o <<"\n">>,
      LongDeclaration(maxLines - 2),
      LongDeclaration(maxLines - 1),
      LongDeclaration(maxLines),
      AssignedWrappedTest,
      joinLines(<<CommentOpener, <<"f", "(">> >> \o [k \in 1..(maxLines + 1) |-> <<"a", ",">>]) }

DefBuffers ==
    {joinLines(ls) : ls \in UNION {[1..k -> DefLinePool] : k \in 1..MaxDefLines}}
        \cup DefExamples

Parsers == {"js", "coffee"}

\* `self.line = parser.getDefinition(v, v.line(point).end() + 1)`: the cursor
\* is on the opener's line of an example, on any line of an enumerated buffer
InitDef ==
    /\ pc = "def_call"
    /\ SplitIdle /\ TabsIdle /\ DefIdle /\ RunIdle /\ AlignIdle /\ NoteIdle /\ SpaceIdle
    /\ view \in DefBuffers
    /\ point \in IF view \in DefExamples THEN {0}
                 ELSE {p \in 0..Len(view) : lineBegin(view, p) = p}
    /\ parser \in Parsers

\* the call, and the locals before the loop
GetDefinitionEnter ==
    /\ pc = "def_call"
    /\ pos' = viewLine(view, point).b + 1
    /\ defI' = 0
    /\ openBrackets' = 0
    /\ definition' = <<>>
    /\ pc' = "def_loop"
    /\ UNCHANGED <<hostVars, notDef>>

\* one iteration of `for i in range(0, maxLines)`, its `break`s included
GetDefinitionLine ==
    /\ pc = "def_loop" /\ inRange(defI, maxLines)
    /\ \E st \in {defStep([pos |-> pos, openBrackets |-> openBrackets,
                            definition |-> definition, done |-> FALSE], view, parser)} :
          /\ pos' = st.pos
          /\ openBrackets' = st.openBrackets
          /\ definition' = st.definition
          /\ IF st.done
             THEN pc' = "def_done" /\ defI' = defI
             ELSE pc' = pc /\ defI' = defI + 1
    /\ UNCHANGED <<hostVars, notDef>>

\* the range is exhausted: `return definition`
GetDefinitionReturn ==
    /\ pc = "def_loop" /\ ~inRange(defI, maxLines)
    /\ pc' = "def_done"
    /\ UNCHANGED <<hostVars, defVars, notDef>>

NextDef == GetDefinitionEnter \/ GetDefinitionLine \/ GetDefinitionReturn

SpecDef == InitDef /\ [][NextDef]_vars


-----------------------------------------------------------------------------
(* Strings of the formatters.                                              *)

\* str.replace(old, new) for a one-character old
replace(s, old, new) ==
    concatAll([k \in 1..Len(s) |-> IF s[k] = old THEN new ELSE <<s[k]>>])

\* escape(str)
escape(s) == replace(replace(replace(s, "$", <<"\\", "$">>), "{", <<"\\", "{">>), "}", <<"\\",
      "}">>)

\* str.find(sub): the 0-based offset of the first occurrence, -1 when absent
findFrom(s, sub, p) ==
    LET hits == {q \in p..(Len(s) - Len(sub)) : SubSeq(s, q + 1, q + Len(sub)) = sub} IN
    IF hits = {} THEN -1 ELSE least(hits)

findStr(s, sub) == findFrom(s, sub, 0)

\* str.startswith(prefix)
startswith(s, prefix) ==
    Len(prefix) <= Len(s) /\ SubSeq(s, 1, Len(prefix)) = prefix

\* str.lower(), on the letters the type names hold
lower(s) ==
    [k \in 1..Len(s) |->
        CASE s[k] = "B" -> "b" [] s[k] = "N" -> "n" [] s[k] = "S" -> "s"
          [] s[k] = "F" -> "f" [] OTHER -> s[k]]

\* float(val) succeeds: Python's floating-point literal syntax
digitPart == Cat(<<Chr(Digits), Star(Cat(<<Opt(Lit(<<"_">>)), Chr(Digits)>>))>>)

floatSyntax ==
    Cat(<<Bol, Star(Chr(Space)), Opt(Chr({"+", "-"})),
          Alt(<<
              Cat(<<Alt(<<Cat(<<digitPart, Opt(Cat(<<Lit(<<".">>), Opt(digitPart)>>))>>),
                          Cat(<<Lit(<<".">>), digitPart>>)>>),
                    Opt(Cat(<<Chr({"e", "E"}), Opt(Chr({"+", "-"})), digitPart>>))>>),
              Cat(<<Chr({"i", "I"}), Chr({"n", "N"}), Chr({"f", "F"}),
                    Opt(Cat(<<Chr({"i", "I"}), Chr({"n", "N"}), Chr({"i", "I"}),
                              Chr({"t", "T"}), Chr({"y", "Y"})>>))>>),
              Cat(<<Chr({"n", "N"}), Chr({"a", "A"}), Chr({"n", "N"})>>)
          >>),
          Star(Chr(Space)), Eol>>)

\* is_numeric(val)
is_numeric(val) == match(floatSyntax, val).found

-----------------------------------------------------------------------------
(* The plugin's settings (BespokeDocs.sublime-settings).                   *)

\* the options as the specification's end-to-end example has them
DefaultSettings ==
    [simple_mode |-> FALSE,
     function_description |-> TRUE,
     autoadd_method_tag |-> FALSE,
     extra_tags |-> <<>>,
     extra_tags_go_after |-> FALSE,
     prefer_param |-> TRUE,
     param_description |-> TRUE,
     param_name |-> TRUE,
     return_tag |-> <<"@", "r", "e", "t", "u", "r", "n">>,
     return_description |-> TRUE,
     align_tags |-> "deep",
     per_section_indent |-> FALSE,
     notation_map |-> <<>>,
     lower_case_primitives |-> FALSE,
     short_primitives |-> FALSE,
     override_js_var |-> <<>>,
     indentation_spaces |-> 1,
     min_spaces_between_columns |-> 1,
     spacer_between_sections |-> "false",
     newline_after_block |-> FALSE]

\* a rule of notation_map: a prefix or a regex, and a type or tags
noRule ==
    [hasPrefix |-> FALSE, prefix |-> <<>>, hasRegex |-> FALSE, regex |-> Bol,
     hasType |-> FALSE, type |-> <<>>, hasTags |-> FALSE, tags |-> <<>>]

-----------------------------------------------------------------------------
(* Guessing types (BespokeDocsParser, BespokeDocsJavascript,               *)
(* BespokeDocsCoffee).  A result that `or` or `if` only tests for truth    *)
(* is the empty string when the code has None or False.                    *)

typeBoolean == <<"B", "o", "o", "l", "e", "a", "n">>
typeFunction == <<"F", "u", "n", "c", "t", "i", "o", "n">>
typePlaceholder == <<"[", "t", "y", "p", "e", "]">>

\* self.settings['typeTag']
typeTag(ps) == IF ps.override_js_var # <<>> THEN ps.override_js_var ELSE <<"t", "y", "p", "e">>

\* self.settings[key] for a rule's type, when the key is one of the settings
settingsHas(key) == key \in {<<"b", "o", "o", "l">>, <<"f", "u", "n", "c", "t", "i", "o", "n">>,
      <<"t", "y", "p", "e", "T", "a", "g">>, <<"c", "o", "m", "m", "e", "n", "t", "C", "l", "o",
      "s", "e", "r">>}

settingsGet(key, p, ps) ==
    CASE key = <<"b", "o", "o", "l">> -> typeBoolean
      [] key = <<"f", "u", "n", "c", "t", "i", "o", "n">> -> typeFunction
      [] key = <<"t", "y", "p", "e", "T", "a", "g">> -> typeTag(ps)
      [] OTHER -> settings(p).commentCloser

\* re.escape(prefix) + '(?:[A-Z_]|$)' when the prefix has a lower-case letter
prefixRegex(prefix) ==
    IF match(Cat(<<Star(Dot), Chr(LowerCase)>>), prefix).found
    THEN Cat(<<Lit(prefix), Alt(<<Chr(UpperCase \cup {"_"}), Eol>>)>>)
    ELSE Lit(prefix)

\* checkMatch(rule)
checkMatch(rule, name) ==
    IF rule.hasPrefix THEN match(prefixRegex(rule.prefix), name).found
    ELSE IF rule.hasRegex THEN search(rule.regex, name).found
    ELSE FALSE

\* BespokeDocsParser.getMatchingNotations
baseMatchingNotations(name, ps) ==
    SelectSeq(ps.notation_map, LAMBDA rule : checkMatch(rule, name))

\* the rule BespokeDocsJavascript.getMatchingNotations appends for a generator
yieldRule(ps) ==
    LET plural == ps.return_tag # <<>> /\ ps.return_tag[Len(ps.return_tag)] = "s"
        yieldTag == <<"@", "y", "i", "e", "l", "d">> \o (IF plural THEN <<"s">> ELSE <<>>)
        description == IF ps.return_description THEN <<" ", "$", "{", "1", ":", "[", "d", "e",
              "s", "c", "r", "i", "p", "t", "i", "o", "n", "]", "}">> ELSE <<>>
    IN [noRule EXCEPT !.hasTags = TRUE,
                      !.tags = << yieldTag \o <<" ", "{", "$", "{", "1", ":", "[", "t", "y", "p",
                            "e", "]", "}", "}">> \o description >>]

\* BespokeDocsJavascript.getMatchingNotations raises on a generator's name when
\* the configured return tag is empty: `...get('return_tag', '_')[-1]`
notationsRaise(name, p, ps) ==
    p = "js" /\ name # <<>> /\ name[1] = "*" /\ ps.return_tag = <<>>

\* getMatchingNotations(name) of the parser p
getMatchingNotations(name, p, ps) ==
    baseMatchingNotations(name, ps)
        \o (IF p = "js" /\ name # <<>> /\ name[1] = "*" THEN <<yieldRule(ps)>> ELSE <<>>)

\* "(?:is|has)[A-Z_]"
isHasName == Cat(<<Alt(<<Lit(<<"i", "s">>), Lit(<<"h", "a", "s">>)>>), Chr(UpperCase \cup {"_"})>>)

\* "^(?:cb|callback|done|next|fn)$"
callbackName ==
    Cat(<<Bol, Alt(<<Lit(<<"c", "b">>), Lit(<<"c", "a", "l", "l", "b", "a", "c", "k">>),
          Lit(<<"d", "o", "n", "e">>), Lit(<<"n", "e", "x", "t">>),
                     Lit(<<"f", "n">>)>>), Eol>>)

\* guessTypeFromName(name) once the matching notations are known
typeFromNotations(matches, name, p, ps) ==
    IF matches # <<>> /\ matches[1].hasType
    THEN IF settingsHas(matches[1].type) THEN settingsGet(matches[1].type, p, ps)
         ELSE matches[1].type
    ELSE IF match(isHasName, name).found THEN typeBoolean
    ELSE IF match(callbackName, name).found THEN typeFunction
    ELSE <<>>

\* guessTypeFromName(name); the empty string is False
guessTypeFromName(name, p, ps) ==
    typeFromNotations(getMatchingNotations(name, p, ps), name, p, ps)

\* 'RegExp\\b|\\/[^\\/]'
regExpValue ==
    Alt(<<Cat(<<Lit(<<"R", "e", "g", "E", "x", "p">>), WordB>>), Cat(<<Lit(<<"/">>),
          NotChr({"/"})>>)>>)

\* 'new (' + fnIdentifier + ')'
newValue == Cat(<<Lit(<<"n", "e", "w", " ">>), Grp("1", identifier)>>)

\* guessTypeFromValue(val) of the parser p: val[0] raises IndexError on the
\* empty string; the empty type is None
guessTypeFromValue(val, p, ps) ==
    LET yes(t) == [raised |-> FALSE, type |-> t] IN
    IF is_numeric(val)
    THEN yes(IF ps.lower_case_primitives THEN <<"n", "u", "m", "b", "e", "r">> ELSE <<"N", "u",
          "m", "b", "e", "r">>)
    ELSE IF val = <<>> THEN [raised |-> TRUE, type |-> <<>>]
    ELSE IF val[1] \in {"\"", "'"}
    THEN yes(IF ps.lower_case_primitives THEN <<"s", "t", "r", "i", "n", "g">> ELSE <<"S", "t",
          "r", "i", "n", "g">>)
    ELSE IF val[1] = "[" THEN yes(<<"A", "r", "r", "a", "y">>)
    ELSE IF val[1] = "{" THEN yes(<<"O", "b", "j", "e", "c", "t">>)
    ELSE IF val = <<"t", "r", "u", "e">> \/ val = <<"f", "a", "l", "s", "e">>
    THEN IF p = "js"
         THEN LET returnVal == IF ps.short_primitives THEN <<"B", "o", "o", "l">> ELSE typeBoolean
              IN yes(IF ps.lower_case_primitives THEN lower(returnVal) ELSE returnVal)
         ELSE yes(IF ps.lower_case_primitives THEN <<"b", "o", "o", "l", "e", "a",
               "n">> ELSE typeBoolean)
    ELSE IF match(regExpValue, val).found THEN yes(<<"R", "e", "g", "E", "x", "p">>)
    ELSE IF p = "js" /\ findStr(val, <<"=", ">">>) > -1
    THEN yes(IF ps.lower_case_primitives THEN <<"f", "u", "n", "c", "t", "i", "o",
          "n">> ELSE typeFunction)
    ELSE IF startswith(val, <<"n", "e", "w", " ">>)
    THEN LET res == search(newValue, val) IN
         yes(IF res.found THEN group(res, val, "1") ELSE <<>>)
    ELSE yes(<<>>)

-----------------------------------------------------------------------------
(* Matching a declaration (parseFunction, parseVar).                       *)

\* \s*
Spaces == Star(Chr(Space))

\* BespokeDocsJavascript.parseFunction: normal functions
jsFunction ==
    Cat(<<Opt(Cat(<<Grp("name1", identifier), Spaces, Chr({":", "="}), Spaces>>)),
          Lit(kwFunction),
          Opt(Grp("generator", Plus(Chr(Space \cup {"*"})))),
          Opt(Grp("name2", identifier)),
          Spaces, Lit(<<"(">>), Spaces, Grp("args", Star(Dot)), Lit(<<")">>)>>)

\* BespokeDocsJavascript.parseFunction: ES6 arrow functions
jsArrow ==
    Cat(<<Alt(<<Grp("args", identifier),
                Cat(<<Lit(<<"(">>), Spaces, Grp("args2", Star(Dot)), Lit(<<")">>)>>)>>),
          Spaces, Lit(<<"=", ">">>)>>)

\* BespokeDocsJavascript.parseFunction: ES6 method initializer shorthand
jsMethod ==
    Cat(<<Grp("name1", identifier), Spaces, Lit(<<"(">>), Grp("args", Star(Dot)),
          Lit(<<")">>), Spaces, Lit(<<"{">>)>>)

\* BespokeDocsCoffee.parseFunction
coffeeFunction ==
    Cat(<<Opt(Cat(<<Grp("name", identifier), Spaces, Chr({":", "="}), Spaces>>)),
          Opt(Cat(<<Lit(<<"(">>), Grp("args", LazyStar(NotChr({"(", ")"}))),
                    Lit(<<")">>)>>)),
          Spaces, Grp("1", Cat(<<Chr({"=", "-"}), Lit(<<">">>)>>))>>)

\* parseVar, the same in both parsers
varAssignment ==
    Cat(<<Grp("name", identifier), Spaces, Chr({"=", ":"}), Spaces,
          Grp("val", LazyStar(Dot)), Alt(<<Chr({";", ","}), Eol>>)>>)

\* `a or b` on strings
orElse(a, b) == IF a # <<>> THEN a ELSE b

\* `A or B or C` on matches
firstFound(r1, r2, r3) == IF r1.found THEN r1 ELSE IF r2.found THEN r2 ELSE r3

\* `return None`
notFound == [found |-> FALSE, name |-> <<>>, args |-> <<>>]

\* BespokeDocsCoffee.parseFunction after its search
coffeeFunctionOf(res, line) ==
    IF ~res.found THEN notFound
    ELSE [found |-> TRUE, name |-> group(res, line, "name"),
          args |-> group(res, line, "args")]

\* BespokeDocsJavascript.parseFunction after its searches
jsFunctionOf(res, line) ==
    IF ~res.found THEN notFound
    ELSE LET generatorSymbol ==
                 IF find(group(res, line, "generator"), "*") > -1
                 THEN <<"*">> ELSE <<>>
         IN [found |-> TRUE,
             name |-> generatorSymbol
                      \o orElse(group(res, line, "name1"), group(res, line, "name2")),
             args |-> orElse(group(res, line, "args"), group(res, line, "args2"))]

\* parseFunction(line) of the parser p: found, and (name, args)
parseFunction(line, p) ==
    IF p = "coffee"
    THEN coffeeFunctionOf(search(coffeeFunction, line), line)
    ELSE jsFunctionOf(firstFound(search(jsFunction, line), search(jsArrow, line),
                                 search(jsMethod, line)), line)

\* parseVar after its search
varOf(res, line) ==
    IF ~res.found THEN [found |-> FALSE, name |-> <<>>, val |-> <<>>]
    ELSE [found |-> TRUE, name |-> group(res, line, "name"),
          val |-> strip(group(res, line, "val"))]

\* parseVar(line): found, and (name, val.strip())
parseVar(line) == varOf(search(varAssignment, line), line)

-----------------------------------------------------------------------------
(* Arguments (parseArgs, getArgInfo, getArgType, getArgName).              *)

\* r'\s*=\s*'
assignment == Cat(<<Spaces, Lit(<<"=">>), Spaces>>)

\* the two sides of the match m in arg, or arg
splitAt(m, arg) ==
    IF m.found
    THEN <<SubSeq(arg, 1, m.start), SubSeq(arg, m.end + 1, Len(arg))>>
    ELSE <<arg>>

\* re.split(r'\s*=\s*', arg, 1)
splitAssignment(arg) == splitAt(search(assignment, arg), arg)

\* BespokeDocsJavascript.getArgType after its split
argTypeOf(parts, p, ps) ==
    IF findStr(parts[1], <<".", ".", ".">>) = 0
    THEN [raised |-> FALSE, type |-> <<".", ".", ".", "[", "t", "y", "p", "e", "]">>]
    ELSE IF Len(parts) > 1 THEN guessTypeFromValue(parts[2], p, ps)
    ELSE [raised |-> FALSE, type |-> <<>>]

\* BespokeDocsJavascript.getArgType; BespokeDocsParser.getArgType is None
getArgType(arg, p, ps) ==
    IF p = "coffee" THEN [raised |-> FALSE, type |-> <<>>]
    ELSE argTypeOf(splitAssignment(arg), p, ps)

\* BespokeDocsJavascript.getArgName after its split
argNameOf(namePart) ==
    IF findStr(namePart, <<".", ".", ".">>) = 0
    THEN SubSeq(namePart, 4, Len(namePart))
    ELSE namePart

\* BespokeDocsJavascript.getArgName; BespokeDocsParser.getArgName is arg
getArgName(arg, p) ==
    IF p = "coffee" THEN arg ELSE argNameOf(splitAssignment(arg)[1])

\* '^\{.*\}$'
destructured == Cat(<<Bol, Lit(<<"{">>), Star(Dot), Lit(<<"}">>), Eol>>)

\* one (type, name), with the exception flag of getArgType
argInfo(t, name) == [raised |-> t.raised, type |-> t.type, name |-> name]

\* the (type, name) of each of subItems
argInfos(subItems, prefix, p, ps) ==
    [k \in 1..Len(subItems) |->
        argInfo(getArgType(subItems[k], p, ps), prefix \o getArgName(subItems[k], p))]

\* getArgInfo(arg): a list of (type, name); BespokeDocsJavascript.getArgInfo
\* takes a destructured argument apart
getArgInfo(arg, p, ps) ==
    IF p = "js" /\ search(destructured, arg).found
    THEN argInfos(splitByCommas(SubSeq(arg, 2, Len(arg) - 1)),
                  <<"o", "p", "t", "i", "o", "n", "s", ".">>, p, ps)
    ELSE argInfos(<<arg>>, <<>>, p, ps)

flatten(lists) == concatAll(lists)

\* parseArgs(args)
parseArgs(args, p, ps) ==
    LET blocks == splitByCommas(args) IN
    flatten([k \in 1..Len(blocks) |-> getArgInfo(blocks[k], p, ps)])

-----------------------------------------------------------------------------
(* Formatting the lines of the comment (formatFunction, formatVar).        *)

\* "{" if self.settings['curlyTypes'] else "": curlyTypes is True in both parsers
curlyOpen == <<"{">>
curlyClose == <<"}">>

\* getTypeInfo(argType, argName): typeInfo is True in both parsers
getTypeInfo(argType, argName, p, ps) ==
    curlyOpen \o <<"$", "{", "1", ":">>
        \o escape(orElse(argType, orElse(guessTypeFromName(argName, p, ps), typePlaceholder)))
        \o <<"}">> \o curlyClose \o <<" ">>

\* "[A-Z]"
capitalized == Chr(UpperCase)

\* '[$_]?(?:set|add)($|[A-Z_])'
setterName ==
    Cat(<<Opt(Chr({"$", "_"})), Alt(<<Lit(<<"s", "e", "t">>), Lit(<<"a", "d", "d">>)>>),
          Grp("1", Alt(<<Eol, Chr(UpperCase \cup {"_"})>>))>>)

\* '[$_]?(?:is|has)($|[A-Z_])'
predicateName ==
    Cat(<<Opt(Chr({"$", "_"})), Alt(<<Lit(<<"i", "s">>), Lit(<<"h", "a", "s">>)>>),
          Grp("1", Alt(<<Eol, Chr(UpperCase \cup {"_"})>>))>>)

\* getFunctionReturnType without the setter/mutator rule
getFunctionReturnTypeOfSetters(name, p, ps) ==
    IF p = "js" /\ name # <<>> /\ name[1] = "*" THEN [none |-> TRUE, type |-> <<>>]
    ELSE IF match(capitalized, name).found THEN [none |-> TRUE, type |-> <<>>]
    ELSE IF match(predicateName, name).found THEN [none |-> FALSE, type |-> typeBoolean]
    ELSE [none |-> FALSE, type |-> guessTypeFromName(name, p, ps)]

\* getFunctionReturnType(name, retval) of the parser p: none is None, the
\* empty type is False
getFunctionReturnType(name, p, ps) ==
    IF p = "js" /\ name # <<>> /\ name[1] = "*" THEN [none |-> TRUE, type |-> <<>>]
    ELSE IF match(capitalized, name).found THEN [none |-> TRUE, type |-> <<>>]
    ELSE IF match(setterName, name).found THEN [none |-> TRUE, type |-> <<>>]
    ELSE IF match(predicateName, name).found THEN [none |-> FALSE, type |-> typeBoolean]
    ELSE [none |-> FALSE, type |-> guessTypeFromName(name, p, ps)]

\* r'/\*.*?\*/'
argComment == Cat(<<Lit(<<"/", "*">>), LazyStar(Dot), Lit(<<"*", "/">>)>>)

\* the @arg/@param line of one argument
paramLine(arg, p, ps) ==
    (IF ps.prefer_param THEN <<"@", "p", "a", "r", "a", "m", " ">> ELSE <<"@", "a", "r", "g", " ">>)
        \o getTypeInfo(arg.type, arg.name, p, ps)
        \o (IF ps.param_name THEN escape(arg.name) ELSE <<>>)
        \o (IF ps.param_description THEN <<" ", "$", "{", "1", ":", "[", "d", "e", "s", "c", "r",
              "i", "p", "t", "i", "o", "n", "]", "}">> ELSE <<>>)

\* the return line
returnLine(retType, args, ps) ==
    LET typeInfo == <<" ">> \o curlyOpen \o <<"$", "{", "1", ":">> \o orElse(retType,
          typePlaceholder)
                        \o <<"}">> \o curlyClose
        tag == orElse(ps.return_tag, <<"@", "r", "e", "t", "u", "r", "n">>)
        third_arg == IF args # <<>> /\ ps.align_tags = "deep" /\ ~ps.per_section_indent
                     THEN <<" ">> ELSE <<>>
    IN IF ps.return_description
       THEN tag \o typeInfo \o <<" ">> \o third_arg \o <<"$", "{", "1", ":", "[", "d", "e", "s",
             "c", "r", "i", "p", "t", "i", "o", "n", "]", "}">>
       ELSE tag \o typeInfo

\* the tags of the matching notations
RECURSIVE notationTags(_)
notationTags(rules) ==
    IF rules = <<>> THEN <<>>
    ELSE (IF Head(rules).hasTags THEN Head(rules).tags ELSE <<>>)
         \o notationTags(Tail(rules))

\* `self.getNameOverride() or ('[%s%sdescription]' % ...)`
functionDescription(name, override) ==
    orElse(override,
           <<"[">> \o escape(name) \o (IF name # <<>> THEN <<" ">> ELSE <<>>) \o <<"d", "e", "s",
                 "c", "r", "i", "p", "t", "i", "o", "n", "]">>)

\* the lines of formatFunction, from the parsed arguments and the return type
functionLines(name, args, argList, retType, override, p, ps) ==
    LET descriptionLines ==
            IF ps.function_description
            THEN <<<<"$", "{", "1", ":">> \o functionDescription(name, override) \o <<"}">>>>
            ELSE <<>>
        methodLines ==
            IF ps.autoadd_method_tag THEN <<<<"@", "m", "e", "t", "h", "o", "d",
                  " ">> \o escape(name)>> ELSE <<>>
        tagsBefore == IF ~ps.extra_tags_go_after THEN ps.extra_tags ELSE <<>>
        paramLines == [k \in 1..Len(argList) |-> paramLine(argList[k], p, ps)]
        returnLines ==
            IF retType.none THEN <<>> ELSE <<returnLine(retType.type, args, ps)>>
        tagsAfter == IF ps.extra_tags_go_after THEN ps.extra_tags ELSE <<>>
    IN [raised |-> \/ \E k \in 1..Len(argList) :
                        \/ argList[k].raised
                        \/ argList[k].type = <<>> /\ notationsRaise(argList[k].name, p, ps)
                   \/ notationsRaise(name, p, ps),
        lines |-> descriptionLines \o methodLines \o tagsBefore \o paramLines
                  \o returnLines \o notationTags(getMatchingNotations(name, p, ps))
                  \o tagsAfter]

\* formatFunction after `args = re.sub(r'/\*.*?\*/', '', args)`
formatArgs(name, args, override, p, ps) ==
    functionLines(name, args, IF args # <<>> THEN parseArgs(args, p, ps) ELSE <<>>,
                  getFunctionReturnType(name, p, ps), override, p, ps)

\* formatFunction(name, args, retval, options): the lines, or the exception
formatFunction(name, args, options, override, p, ps) ==
    IF "as_setter" \in options
    THEN [raised |-> FALSE, lines |-> <<<<"@", "p", "r", "i", "v", "a", "t", "e">>>>]
    ELSE formatArgs(name, IF args # <<>> THEN subEmpty(argComment, args) ELSE args,
                    override, p, ps)

\* the @type line of formatVar
typeLine(valType, ps) ==
    <<"@">> \o typeTag(ps) \o <<" ">> \o curlyOpen \o <<"$", "{", "1", ":">> \o valType
        \o <<"}">> \o curlyClose

\* the lines of formatVar, inline or not
varLines(name, line, inl) ==
    IF inl
    THEN <<line \o <<" ", "$", "{", "1", ":", "[", "d", "e", "s", "c", "r", "i", "p", "t",
                     "i", "o", "n", "]", "}">>>>
    ELSE <<<<"$", "{", "1", ":", "[">> \o escape(name)
               \o <<" ", "d", "e", "s", "c", "r", "i", "p", "t", "i", "o", "n", "]", "}">>,
           line>>

\* formatVar without the guess from the name
formatGuessedFromValueOnly(name, guessed, inl, p, ps) ==
    [raised |-> guessed.raised,
     lines |-> varLines(name, typeLine(orElse(guessed.type, typePlaceholder), ps), inl)]

\* formatVar from `valType = self.guessTypeFromValue(val) or ...` on
formatGuessed(name, guessed, inl, p, ps) ==
    [raised |-> guessed.raised,
     lines |-> varLines(name,
                        typeLine(orElse(guessed.type,
                                        orElse(guessTypeFromName(name, p, ps),
                                               typePlaceholder)), ps),
                        inl)]

\* formatVar(name, val): the lines, or the exception
formatVar(name, val, inl, p, ps) ==
    IF val = <<>>
    THEN [raised |-> FALSE, lines |-> varLines(name, typeLine(typePlaceholder, ps), inl)]
    ELSE formatGuessed(name, guessTypeFromValue(val, p, ps), inl, p, ps)

\* `return None`
noLines == [raised |-> FALSE, none |-> TRUE, lines |-> <<>>]

\* what a formatter returns, or the exception it raised
formatted(r) ==
    [raised |-> r.raised, none |-> r.raised, lines |-> IF r.raised THEN <<>> ELSE r.lines]

\* `out = self.parseVar(line)` and what follows it
parseAsVar(var, inl, p, ps) ==
    IF var.found THEN formatted(formatVar(var.name, var.val, inl, p, ps)) ELSE noLines

\* `out = self.parseFunction(line)` and what follows it
parseAsFunction(fn, line, inl, override, p, ps) ==
    IF fn.found THEN formatted(formatFunction(fn.name, fn.args, {}, override, p, ps))
    ELSE parseAsVar(parseVar(line), inl, p, ps)

\* parse(line) up to its except clause
parseBody(line, inl, override, p, ps) ==
    IF ps.simple_mode THEN noLines
    ELSE parseAsFunction(parseFunction(line, p), line, inl, override, p, ps)

\* `except: return None`
except(r) == IF r.raised THEN noLines ELSE r

\* parse(line) without the except clause: an exception leaves parse
parseUnguarded(line, inl, override, p, ps) == parseBody(line, inl, override, p, ps)

\* parse(line): the lines, or None
parse(line, inl, override, p, ps) == except(parseBody(line, inl, override, p, ps))

-----------------------------------------------------------------------------
(* Generating the snippet (generateSnippet and what it calls).             *)

\* what the host's clock gives datetime.date.today().isoformat()
today == <<"2", "0", "1", "6", "-", "0", "1", "-", "3", "1">>

\* the "%s%s%02d%02d" of the local time and its offset
now == <<"2", "0", "1", "6", "-", "0", "1", "-", "3", "1", "T", "1", "2", ":", "0", "0", ":",
      "0", "0", "+", "0", "0", "0", "0">>

\* r'\{\{([^}]+)\}\}'
variable ==
    Cat(<<Lit(<<"{", "{">>), Grp("1", Plus(NotChr({"}"}))), Lit(<<"}", "}">>)>>)

\* getVar(match)
getVar(m, s) ==
    LET varName == group(m, s, "1") IN
    IF varName = <<"d", "a", "t", "e", "t", "i", "m", "e">> THEN now
    ELSE IF varName = <<"d", "a", "t", "e">> THEN today
    ELSE SubSeq(s, m.start + 1, m.end)

\* re.sub(pattern, getVar, line), over the matches ms from offset p on
RECURSIVE subVars(_, _, _)
subVars(ms, s, p) ==
    IF ms = <<>> THEN SubSeq(s, p + 1, Len(s))
    ELSE SubSeq(s, p + 1, Head(ms).start) \o getVar(Head(ms), s)
         \o subVars(Tail(ms), s, Head(ms).end)

\* subLine(line)
subLine(s) == subVars(finditer(variable, s, 0), s, 0)

\* substituteVariables(out)
substituteVariables(lines) == [k \in 1..Len(lines) |-> subLine(lines[k])]

\* "[$][{]\\d+:([^}]+)[}]"
tabStop ==
    Cat(<<Chr({"$"}), Chr({"{"}), Plus(Chr(Digits)), Lit(<<":">>),
          Grp("1", Plus(NotChr({"}"}))), Chr({"}"})>>)

\* re.sub(tabStop, "\\1", s), over the matches ms from offset p on
RECURSIVE subGroup1(_, _, _)
subGroup1(ms, s, p) ==
    IF ms = <<>> THEN SubSeq(s, p + 1, Len(s))
    ELSE SubSeq(s, p + 1, Head(ms).start) \o group(Head(ms), s, "1")
         \o subGroup1(Tail(ms), s, Head(ms).end)

\* str.replace('\$', '$'): a backslash before a dollar sign is dropped
unescapeDollar(s) ==
    concatAll([k \in 1..Len(s) |->
        IF s[k] = "\\" /\ k < Len(s) /\ s[k + 1] = "$" THEN <<>> ELSE <<s[k]>>])

\* outputWidth(str): the length of a string after it is output as a snippet
outputWidth(s) == Len(unescapeDollar(subGroup1(finditer(tabStop, s, 0), s, 0)))

\* str.split(" ")
splitSpace(s) == cutAt(s, {k \in 1..Len(s) : s[k] = " "})

\* " " * n
spaces(n) == [k \in 1..n |-> " "]

max(a, b) == IF a >= b THEN a ELSE b

\* the columns alignTags measures on a line; none for the lines it skips
columnsOf(line, ps) ==
    LET returnTag == orElse(ps.return_tag, <<"@", "r", "e", "t", "u", "r", "n">>) IN
    IF ~startswith(line, <<"@">>) THEN <<>>
    ELSE IF ps.per_section_indent /\ startswith(line, returnTag) THEN <<>>
    ELSE IF startswith(line, <<"@", "a", "u", "t", "h", "o", "r">>) THEN <<<<"@", "a", "u", "t",
          "h", "o", "r">>>>
    ELSE splitSpace(line)

\* widths: the widths per column of the measured lines
widthsOf(lines, ps) ==
    LET measured == SelectSeq(lines, LAMBDA l : columnsOf(l, ps) # <<>>) IN
    [k \in 1..Len(measured) |->
        LET columns == columnsOf(measured[k], ps) IN
        [c \in 1..Len(columns) |-> outputWidth(columns[c])]]

RECURSIVE maxOver(_, _, _)
\* the largest width of column c over widths[k..]
maxOver(widths, k, c) ==
    IF k > Len(widths) THEN 0
    ELSE max(IF c <= Len(widths[k]) THEN widths[k][c] ELSE 0, maxOver(widths, k + 1, c))

RECURSIVE maxLen(_, _)
maxLen(widths, k) ==
    IF k > Len(widths) THEN 0 ELSE max(Len(widths[k]), maxLen(widths, k + 1))

\* maxWidths: filled for every column when deep, for the first only when shallow
maxWidthsOf(lines, ps) ==
    LET widths == widthsOf(lines, ps)
        maxCols == maxLen(widths, 1)
    IN [c \in 1..maxCols |->
           IF ps.align_tags = "shallow" /\ c > 1 THEN 0 ELSE maxOver(widths, 1, c)]

\* the line with its columns separated by the minimum spacing only
alignLineUnpadded(line, maxWidths, ps) ==
    LET parts == splitSpace(line)
        padded == [k \in 1..Len(parts) |-> parts[k] \o spaces(ps.min_spaces_between_columns)]
    IN strip(flatten(padded))

\* the line with its columns joined, nothing between them
alignLineUnspaced(line, maxWidths, ps) == strip(flatten(splitSpace(line)))

\* the line with its columns padded
alignLine(line, maxWidths, ps) ==
    LET parts == splitSpace(line)
        padded == [k \in 1..Len(parts) |->
                      parts[k] \o spaces(ps.min_spaces_between_columns)
                      \o spaces((IF k <= Len(maxWidths) THEN maxWidths[k] ELSE 0)
                                - outputWidth(parts[k]))]
    IN strip(flatten(padded))

\* alignTags(out)
alignTags(lines, ps) ==
    LET maxWidths == maxWidthsOf(lines, ps) IN
    [k \in 1..Len(lines) |->
        IF startswith(lines[k], <<"@">>) /\ ~startswith(lines[k], <<"@", "a", "u", "t", "h", "o",
              "r">>)
        THEN alignLine(lines[k], maxWidths, ps)
        ELSE lines[k]]

\* "^\\s*@([a-zA-Z]+)"
tagLine == Cat(<<Bol, Spaces, Lit(<<"@">>), Grp("1", Plus(Chr(Letters)))>>)

\* `out[idx] = ""` in place of the insertion: the line at idx is lost
blankInPlace(lines, at) == [lines EXCEPT ![at + 1] = <<>>]

\* list.insert(idx, ""): at is idx, 0-based
insertBlank(lines, at) ==
    SubSeq(lines, 1, at) \o << <<>> >> \o SubSeq(lines, at + 1, Len(lines))

\* the loop of spacer_between_sections == True, on the list it inserts into;
\* lastTag is None while hasLast is FALSE
RECURSIVE spaceSections(_, _, _, _, _)
spaceSections(lines, at, hasLast, lastTag, ps) ==
    IF at >= Len(lines) THEN lines
    ELSE LET res == match(tagLine, lines[at + 1])
             tag == group(res, lines[at + 1], "1")
         IN IF res.found /\ (~hasLast \/ lastTag # tag)
            THEN spaceSections(IF ~ps.function_description /\ ~hasLast THEN lines
                               ELSE insertBlank(lines, at),
                               at + 1, TRUE, tag, ps)
            ELSE spaceSections(lines, at + 1, hasLast, lastTag, ps)

\* the loop of spacer_between_sections == 'after_description'
RECURSIVE spaceAfterDescription(_, _, _)
spaceAfterDescription(lines, at, lastLineIsTag) ==
    IF at >= Len(lines) THEN lines
    ELSE IF match(tagLine, lines[at + 1]).found
    THEN spaceAfterDescription(IF ~lastLineIsTag THEN insertBlank(lines, at) ELSE lines,
                               at + 1, TRUE)
    ELSE spaceAfterDescription(lines, at + 1, lastLineIsTag)

\* "\n " + self.prefix
linePrefix == <<"\n", " ", "*">>

\* `for line in out: snippet += ...`
bodyOf(lines, indent) ==
    concatAll([k \in 1..Len(lines) |->
        linePrefix \o (IF lines[k] # <<>> THEN indent \o lines[k] ELSE <<>>)])

\* createSnippet with a blank line before the first tag group even when the
\* description line is disabled
createSnippetSpacedFromTheTop(lines, trailing, indent, p, ps) ==
    LET closer == settings(p).commentCloser
        spaced == IF ps.spacer_between_sections = "true"
                  THEN spaceSections(lines, 0, FALSE, <<>>,
                                     [ps EXCEPT !.function_description = TRUE])
                  ELSE IF ps.spacer_between_sections = "after_description"
                          /\ ps.function_description
                  THEN spaceAfterDescription(lines, 0, FALSE)
                  ELSE lines
    IN (IF lines # <<>> THEN bodyOf(spaced, indent)
        ELSE linePrefix \o indent \o <<"$", "{", "0", ":">> \o trailing \o <<"}">>)
       \o <<"\n">> \o closer

\* createSnippet with the blank line after the description even when the
\* description line is disabled
createSnippetSpacedWithoutDescription(lines, trailing, indent, p, ps) ==
    LET closer == settings(p).commentCloser
        spaced == IF ps.spacer_between_sections = "true"
                  THEN spaceSections(lines, 0, FALSE, <<>>, ps)
                  ELSE IF ps.spacer_between_sections = "after_description"
                  THEN spaceAfterDescription(lines, 0, FALSE)
                  ELSE lines
    IN (IF lines # <<>> THEN bodyOf(spaced, indent)
        ELSE linePrefix \o indent \o <<"$", "{", "0", ":">> \o trailing \o <<"}">>)
       \o <<"\n">> \o closer

\* createSnippet(out)
createSnippet(lines, trailing, indent, p, ps) ==
    LET closer == settings(p).commentCloser
        spaced == IF ps.spacer_between_sections = "true"
                  THEN spaceSections(lines, 0, FALSE, <<>>, ps)
                  ELSE IF ps.spacer_between_sections = "after_description"
                          /\ ps.function_description
                  THEN spaceAfterDescription(lines, 0, FALSE)
                  ELSE lines
    IN (IF lines # <<>> THEN bodyOf(spaced, indent)
        ELSE linePrefix \o indent \o <<"$", "{", "0", ":">> \o trailing \o <<"}">>)
       \o <<"\n">> \o closer

\* `if self.settings.get('align_tags') ... and not inline: out = self.alignTags(out)`
aligned(lines, inl, ps) ==
    IF ps.align_tags \in {"shallow", "deep"} /\ ~inl THEN alignTags(lines, ps) ELSE lines

\* generateSnippet from the lines it has prepared
snippetOf(lines, inl, trailing, indent, p, ps) ==
    IF inl
    THEN IF lines # <<>> THEN <<" ">> \o lines[1] \o <<" ", "*", "/">>
         ELSE <<" ", "$", "0", " ", "*", "/">>
    ELSE createSnippet(lines, trailing, indent, p, ps)
         \o (IF ps.newline_after_block THEN <<"\n">> ELSE <<>>)

\* generateSnippet(out, inline); out is the empty list when parse gave None
generateSnippet(lines, inl, trailing, indent, p, ps) ==
    snippetOf(IF lines # <<>>
              THEN fixTabStops(aligned(substituteVariables(lines), inl, ps))
              ELSE lines,
              inl, trailing, indent, p, ps)

-----------------------------------------------------------------------------
(* The command (BespokeDocsCommand.run, initialize).                       *)

\* '\\s*\\*\\/\\s*$'
trailingCloser == Cat(<<Spaces, Lit(<<"*", "/">>), Spaces, Eol>>)

\* self.trailingRgn
trailingRgn(v, pt) == [a |-> pt, b |-> viewLine(v, pt).b]

\* self.trailingString
trailingStringOf(v, pt) ==
    escape(subEmpty(trailingCloser, strip(substr(v, trailingRgn(v, pt)))))

\* " " * max(0, indentation_spaces)
indentSpacesOf(ps) == spaces(max(0, ps.indentation_spaces))

\* '^\\s*\\*'
existingComment == Cat(<<Bol, Spaces, Lit(<<"*">>)>>)

\* isExistingComment(line)
isExistingComment(s) == search(existingComment, s).found

\* an erasure that leaves the view as it is
eraseNothing(v, region) == v

\* view.erase(edit, region)
erase(v, region) == SubSeq(v, 1, region.a) \o SubSeq(v, region.b + 1, Len(v))

-----------------------------------------------------------------------------
(* The command, one statement of run at a time, on enumerated views.       *)

\* function foo (bar, baz) {
DeclFunction ==
    <<"f", "u", "n", "c", "t", "i", "o", "n", " ", "f", "o", "o", " ", "(",
      "b", "a", "r", ",", " ", "b", "a", "z", ")", " ", "{">>

\* var foo = 1;
DeclVar ==
    <<"v", "a", "r", " ", "f", "o", "o", " ", "=", " ", "1", ";">>

\* test_basic: basic
DeclBasic ==
    <<"b", "a", "s", "i", "c">>

\* function f(a=) {
DeclEmptyDefault ==
    <<"f", "u", "n", "c", "t", "i", "o", "n", " ", "f", "(", "a", "=", ")",
      " ", "{">>

\*  * existing: the next line of a comment that is already there
DeclExisting ==
    <<" ", "*", " ", "e", "x", "i", "s", "t", "i", "n", "g">>

\* function Foo() {
DeclClass ==
    <<"f", "u", "n", "c", "t", "i", "o", "n", " ", "F", "o", "o", "(", ")",
      " ", "{">>

\* foo = (a, b) ->
DeclCoffee ==
    <<"f", "o", "o", " ", "=", " ", "(", "a", ",", " ", "b", ")", " ", "-",
      ">">>

\* x => x
DeclArrow ==
    <<"x", " ", "=", ">", " ", "x">>

\* getName() {
DeclMethod ==
    <<"g", "e", "t", "N", "a", "m", "e", "(", ")", " ", "{">>

\* isReady = function () {
DeclPredicate ==
    <<"i", "s", "R", "e", "a", "d", "y", " ", "=", " ", "f", "u", "n", "c",
      "t", "i", "o", "n", " ", "(", ")", " ", "{">>

\* function* gen(a) {
DeclGenerator ==
    <<"f", "u", "n", "c", "t", "i", "o", "n", "*", " ", "g", "e", "n", "(",
      "a", ")", " ", "{">>

\* var cb = null
DeclCallback ==
    <<"v", "a", "r", " ", "c", "b", " ", "=", " ", "n", "u", "l", "l">>

\* function f({a, b = 2}, ...rest) {
DeclOptions ==
    <<"f", "u", "n", "c", "t", "i", "o", "n", " ", "f", "(", "{", "a", ",",
      " ", "b", " ", "=", " ", "2", "}", ",", " ", ".", ".", ".", "r", "e",
      "s", "t", ")", " ", "{">>

\* test_vars_string_double_quotes: var foo = "a";
DeclVarString ==
    <<"v", "a", "r", " ", "f", "o", "o", " ", "=", " ", "\"", "a", "\"", ";">>

\* test_vars_unknown_type: var foo = bar;
DeclVarUnknown ==
    <<"v", "a", "r", " ", "f", "o", "o", " ", "=", " ", "b", "a", "r", ";">>

\* a variable without a value: var foo = ;
DeclVarEmpty ==
    <<"v", "a", "r", " ", "f", "o", "o", " ", "=", " ", ";">>

\* function setName(v) {
DeclSetter ==
    <<"f", "u", "n", "c", "t", "i", "o", "n", " ", "s", "e", "t", "N", "a", "m",
      "e", "(", "v", ")", " ", "{">>

\* function done() {
DeclDone ==
    <<"f", "u", "n", "c", "t", "i", "o", "n", " ", "d", "o", "n", "e", "(", ")",
      " ", "{">>

\* function settle() {
DeclSettle ==
    <<"f", "u", "n", "c", "t", "i", "o", "n", " ", "s", "e", "t", "t", "l", "e",
      "(", ")", " ", "{">>

\* text typed after the opener:  my text
TrailingText ==
    <<" ", "m", "y", " ", "t", "e", "x", "t">>

\* text typed after the opener:  a}b */
TrailingEscaped ==
    <<" ", "a", "}", "b", " ", "*", "/">>

\* what follows the opener's line: one declaration, the declaration of the
\* multi-line test, or nothing
RunDeclarations ==
    { <<DeclFunction>>, <<DeclVar>>, <<DeclBasic>>, <<DeclEmptyDefault>>,
      <<DeclExisting>>, <<DeclClass>>, <<DeclCoffee>>, <<DeclArrow>>, <<DeclMethod>>,
      <<DeclPredicate>>, <<DeclGenerator>>, <<DeclCallback>>, <<DeclOptions>>,
      <<DeclVarString>>, <<DeclVarUnknown>>, <<DeclVarEmpty>>, <<DeclSetter>>,
      <<DeclDone>>, <<DeclSettle>>,
      <<TestLine1, TestLine2, TestLine3, TestLine4>>, <<>> }

RunTrailing == { <<>>, TrailingText, TrailingEscaped }

\* the views: the opener, what was typed after it, and the declaration
RunViews ==
    { joinLines(<<CommentOpener \o t>> \o d) : t \in RunTrailing, d \in RunDeclarations }

\* a notation map of one rule, {'prefix': 'is', 'tags': ['@predicate']}, and
\* the extra tags ['@since 1.0']
NotationSettings ==
    [DefaultSettings EXCEPT
        !.notation_map = <<[noRule EXCEPT !.hasPrefix = TRUE, !.prefix = <<"i", "s">>,
                                          !.hasTags = TRUE,
                                          !.tags = <<<<"@", "p", "r", "e", "d", "i",
                                                       "c", "a", "t", "e">>>>]>>,
        !.extra_tags = <<<<"@", "s", "i", "n", "c", "e", " ", "1", ".", "0">>>>]

\* the settings the command runs with
Configurations ==
    { DefaultSettings,
      [DefaultSettings EXCEPT !.simple_mode = TRUE],
      [DefaultSettings EXCEPT !.function_description = FALSE],
      [DefaultSettings EXCEPT !.newline_after_block = TRUE],
      [DefaultSettings EXCEPT !.indentation_spaces = 2],
      [DefaultSettings EXCEPT !.align_tags = "none"],
      [DefaultSettings EXCEPT !.align_tags = "shallow"],
      [DefaultSettings EXCEPT !.return_tag = <<"@", "r", "e", "t", "u", "r", "n", "s">>,
                              !.lower_case_primitives = TRUE],
      [DefaultSettings EXCEPT !.return_tag = <<>>],
      [DefaultSettings EXCEPT !.function_description = FALSE,
                              !.autoadd_method_tag = TRUE],
      [DefaultSettings EXCEPT !.spacer_between_sections = "true"],
      [DefaultSettings EXCEPT !.spacer_between_sections = "true",
                              !.function_description = FALSE],
      [DefaultSettings EXCEPT !.spacer_between_sections = "after_description"],
      [DefaultSettings EXCEPT !.spacer_between_sections = "after_description",
                              !.function_description = FALSE],
      NotationSettings,
      [NotationSettings EXCEPT !.extra_tags_go_after = TRUE] }

\* the cursor is at the end of the opener
InitRun ==
    /\ pc = "run_call"
    /\ SplitIdle /\ TabsIdle /\ DefIdle /\ AlignIdle /\ NoteIdle /\ SpaceIdle
    /\ view \in RunViews
    /\ point = Len(CommentOpener)
    /\ parser \in Parsers
    /\ inline \in BOOLEAN
    /\ pluginSettings \in Configurations
    /\ trailingString = <<>> /\ indentSpaces = <<>> /\ nameOverride = <<>>
    /\ selfLine = <<>>
    /\ runOut = [none |-> TRUE, lines |-> <<>>]
    /\ snippet = <<>> /\ written = <<>> /\ writes = 0

\* initialize(self.view, inline)
RunInitialize ==
    /\ pc = "run_call"
    /\ trailingString' = trailingStringOf(view, point)
    /\ indentSpaces' = indentSpacesOf(pluginSettings)
    /\ nameOverride' = trailingStringOf(view, point)
    /\ selfLine' = getDefinition(view, viewLine(view, point).b + 1, parser)
    /\ pc' = "run_initialized"
    /\ UNCHANGED <<hostVars, inline, pluginSettings, runOut, snippet, written, writes,
                   notRun>>

\* `if self.parser.isExistingComment(self.line): write(...); return`
RunExistingComment ==
    /\ pc = "run_initialized" /\ isExistingComment(selfLine)
    /\ written' = linePrefix \o indentSpaces
    /\ writes' = writes + 1
    /\ pc' = "run_done"
    /\ UNCHANGED <<hostVars, inline, pluginSettings, trailingString, indentSpaces,
                   nameOverride, selfLine, runOut, snippet, notRun>>

\* `self.view.erase(edit, self.trailingRgn)`
RunErase ==
    /\ pc = "run_initialized" /\ ~isExistingComment(selfLine)
    /\ view' = erase(view, trailingRgn(view, point))
    /\ pc' = "run_erased"
    /\ UNCHANGED <<point, parser, runVars, notRun>>

\* `out = self.parser.parse(self.line)`; an exception that leaves parse
\* leaves run
RunParse ==
    /\ pc = "run_erased"
    /\ \E r \in {parse(selfLine, inline, nameOverride, parser, pluginSettings)} :
          IF r.raised
          THEN pc' = "run_raised" /\ UNCHANGED runOut
          ELSE pc' = "run_parsed" /\ runOut' = [none |-> r.none, lines |-> r.lines]
    /\ UNCHANGED <<hostVars, inline, pluginSettings, trailingString, indentSpaces,
                   nameOverride, selfLine, snippet, written, writes, notRun>>

\* `snippet = self.generateSnippet(out, inline)`
RunGenerate ==
    /\ pc = "run_parsed"
    /\ snippet' = generateSnippet(runOut.lines, inline, trailingString, indentSpaces,
                                  parser, pluginSettings)
    /\ pc' = "run_generated"
    /\ UNCHANGED <<hostVars, inline, pluginSettings, trailingString, indentSpaces,
                   nameOverride, selfLine, runOut, written, writes, notRun>>

\* `write(self.view, snippet)`
RunWrite ==
    /\ pc = "run_generated"
    /\ written' = snippet
    /\ writes' = writes + 1
    /\ pc' = "run_done"
    /\ UNCHANGED <<hostVars, inline, pluginSettings, trailingString, indentSpaces,
                   nameOverride, selfLine, runOut, snippet, notRun>>

NextRun ==
    RunInitialize \/ RunExistingComment \/ RunErase \/ RunParse \/ RunGenerate \/ RunWrite

SpecRun == InitRun /\ [][NextRun]_vars


-----------------------------------------------------------------------------
(* What "inside of quotes or brackets" means (docstring, lines 64-69):     *)
(* the sections of a string read with proper nesting.  A quote runs to the *)
(* next unescaped occurrence of itself; a bracket runs to its own closer,  *)
(* and quotes and brackets opened inside it are sections of their own.     *)

Quotes == {"\"", "'"}
Closers == {">", ")", "}"}

\* stack: the open sections, innermost last, each with its opener's position
nestStep(st, char, i) ==
    IF st.esc THEN [st EXCEPT !.esc = FALSE]
    ELSE IF st.stack = <<>>
    THEN IF find(openQuotes, char) > -1
         THEN [st EXCEPT !.stack =
                  <<[close |-> closeQuotes[find(openQuotes, char) + 1], pos |-> i]>>]
         ELSE IF char \in Closers THEN [st EXCEPT !.stray = TRUE] ELSE st
    ELSE LET top == st.stack[Len(st.stack)] IN
         IF char = "\\" THEN [st EXCEPT !.esc = TRUE]
         ELSE IF char = top.close
         THEN [st EXCEPT !.stack = SubSeq(@, 1, Len(@) - 1)]
         ELSE IF top.close \in Quotes THEN st
         ELSE IF find(openQuotes, char) > -1
         THEN [st EXCEPT !.stack =
                  Append(@, [close |-> closeQuotes[find(openQuotes, char) + 1], pos |-> i])]
         ELSE IF char \in Closers THEN [st EXCEPT !.stray = TRUE] ELSE st

\* the reading of s[a..b] from st, by halves
RECURSIVE nestLoop(_, _, _, _)
nestLoop(st, s, a, b) ==
    IF a > b THEN st
    ELSE IF a = b THEN nestStep(st, s[a], a)
    ELSE LET mid == (a + b) \div 2
             left == nestLoop(st, s, a, mid)
         IN  \* the first half is read before the second half starts
             IF left.stack = <<>>
             THEN nestLoop(left, s, mid + 1, b)
             ELSE nestLoop(left, s, mid + 1, b)

Nesting(s) == nestLoop([stack |-> <<>>, esc |-> FALSE, stray |-> FALSE], s, 1, Len(s))

\* every quote and bracket of s has its partner
Matched(s) == Nesting(s).stack = <<>> /\ ~Nesting(s).stray

\* the comma at position i of s is outside every section
TopLevelComma(s, i) == s[i] = "," /\ Nesting(SubSeq(s, 1, i - 1)).stack = <<>>

TopLevelCommas(s) == {i \in 1..Len(s) : TopLevelComma(s, i)}

\* the pieces of s between its top-level commas, trimmed
pieces(s) ==
    LET cut == cutAt(s, TopLevelCommas(s)) IN [k \in 1..Len(cut) |-> strip(cut[k])]

\* s with the whitespace around its top-level commas and at its ends removed
Trimmed(s) == join(<<",">>, pieces(s))

\* the number of backslashes immediately before position i of s
backslashesBefore(s, i) ==
    i - 1 - greatest({0} \cup {k \in 1..(i - 1) : s[k] # "\\"})

\* position i of s follows a backslash that is not itself escaped
AfterBackslash(s, i) == backslashesBefore(s, i) % 2 = 1

-----------------------------------------------------------------------------
(* Claims about splitByCommas.                                             *)

\* the loop has just cut a token at the comma at idx - 1
JustSplit == pc = "split" /\ idx > 1 /\ str[idx - 1] = "," /\ current = <<>>

\* C2: a comma is a token boundary only when every bracket or quote opened
\* before it, nested ones included, has been closed.
C2_CommaSplitsOnlyOutsideSections ==
    JustSplit => Nesting(SubSeq(str, 1, idx - 2)).stack = <<>>

\* C3: for a string without unmatched quotes or brackets, joining the tokens
\* with ", " gives the string back up to the whitespace around top-level
\* commas: nothing else is lost, added or reordered.
C3_JoinReconstructs ==
    (pc = "split_done" /\ Matched(str))
        => Trimmed(join(<<",", " ">>, out)) = Trimmed(str)

\* C4 as claimed: a character that follows an unescaped backslash is copied
\* into the current token and neither separates, opens nor closes, inside
\* and outside a section alike.
C4_BackslashEscapesEverywhere ==
    [][(pc = "split" /\ idx <= Len(str) /\ AfterBackslash(str, idx))
          => /\ current' = Append(current, str[idx])
             /\ out' = out
             /\ insideQuotes' = insideQuotes]_vars

\* C4 as amended: inside a section a backslash escapes the next character,
\* which is copied into the token and cannot close the section; outside a
\* section a backslash is an ordinary character and the character after it
\* still separates or opens.
C4_BackslashEscapesInsideSections ==
    [][(pc = "split" /\ idx <= Len(str))
          => /\ (insideQuotes /\ AfterBackslash(str, idx))
                  => /\ current' = Append(current, str[idx])
                     /\ out' = out
                     /\ insideQuotes'
             /\ (~insideQuotes /\ str[idx] = "\\")
                  => /\ current' = Append(current, "\\")
                     /\ out' = out
                     /\ ~insideQuotes'
             /\ (~insideQuotes /\ idx > 1 /\ str[idx - 1] = "\\")
                  => /\ str[idx] = "," => out' = Append(out, strip(current))
                     /\ find(openQuotes, str[idx]) > -1 => insideQuotes']_vars

\* C4 witness: inside a section, a closer that follows a backslash was copied
\* into the token right after the character before the backslash, and the
\* section is still open.
C4_Witness_EscapedCloserCopied ==
    /\ pc = "split" /\ idx > 3 /\ insideQuotes
    /\ str[idx - 1] = matchingQuote /\ str[idx - 2] = "\\" /\ str[idx - 3] # "\\"
    /\ Len(current) >= 2
    /\ current[Len(current)] = matchingQuote
    /\ current[Len(current) - 1] = str[idx - 3]

\* C5: no token for the empty string; otherwise one token more than there are
\* top-level commas (so at least one), each without surrounding whitespace.
C5_TokenCount ==
    pc = "split_done"
        => /\ str = <<>> => out = <<>>
           /\ str # <<>> => /\ Len(out) >= 1
                            /\ Len(out) = Cardinality(TopLevelCommas(str)) + 1
                            /\ \A k \in 1..Len(out) : out[k] = strip(out[k])

\* C6: when a quote or bracket is never closed, no token is cut from its
\* opener on: the tokens are those cut before the opener plus one final token.
C6_UnclosedSectionIsOneToken ==
    (pc = "split_done" /\ Nesting(str).stack # <<>>)
        => LET opener == Nesting(str).stack[1].pos
               before == SubSeq(str, 1, opener - 1)
           IN Len(out) = IF before = <<>> THEN 1 ELSE Len(splitByCommas(before))


-----------------------------------------------------------------------------
(* Claim about fixTabStops.                                                *)

\* the number written by a run of digits
RECURSIVE number(_)
number(digits) ==
    IF digits = <<>> THEN 0
    ELSE 10 * number(SubSeq(digits, 1, Len(digits) - 1))
         + find(DigitChars, digits[Len(digits)])

\* the positions of a text where a tab-stop ${index:text} opens
tabStopStarts(text) ==
    {p \in 1..Len(text) :
        /\ p + 1 <= Len(text) /\ text[p] = "$" /\ text[p + 1] = "{"
        /\ span(text, p + 2, Digits) > p + 2
        /\ span(text, p + 2, Digits) <= Len(text)
        /\ text[span(text, p + 2, Digits)] = ":"}

\* the indices of the tab-stops of a text, left to right
tabStopIndices(text) ==
    LET starts == ascending(tabStopStarts(text)) IN
    [j \in 1..Len(starts) |->
        number(SubSeq(text, starts[j] + 2, span(text, starts[j] + 2, Digits) - 1))]

\* the indices of a line sequence, top to bottom and left to right
indicesOfLines(lines) == concatAll([k \in 1..Len(lines) |-> tabStopIndices(lines[k])])

\* C1: after every invocation of fixTabStops the tab-stop indices of the
\* lines, read top to bottom and left to right, are 1, 2, ..., n; the count
\* starts again at 1 whatever earlier invocations produced.
C1_TabStopsAreConsecutive ==
    pc = "tabs_done"
        => indicesOfLines(tabOut) = [k \in 1..Len(indicesOfLines(tabOut)) |-> k]

\* C1 witness: a second invocation has renumbered a sequence of several lines,
\* one of them with two tab-stops, while the first invocation had handed out
\* more indices than this one.
C1_Witness_SecondInvocationRenumbered ==
    /\ pc = "tabs_done" /\ invocation = 2
    /\ Len(tabOut) >= 2
    /\ \E k \in 1..Len(tabOut) : Len(tabStopIndices(tabOut[k])) = 2
    /\ Len(indicesOfLines(tabOut)) >= 3
    /\ tabIndex = Len(indicesOfLines(tabOut))

-----------------------------------------------------------------------------
(* Claims about getDefinition.                                             *)

\* where getDefinition starts to read: the line after the cursor's
DefStart == viewLine(view, point).b + 1

\* the text of v from offset p on, line by line; what follows the last
\* newline is a line only when it is not empty
textLines(v, p) ==
    LET rest == SubSeq(v, p + 1, Len(v))
        cut == cutAt(rest, {k \in 1..Len(rest) : rest[k] = "\n"})
    IN IF p >= Len(v) THEN <<>>
       ELSE IF cut[Len(cut)] = <<>> THEN SubSeq(cut, 1, Len(cut) - 1)
       ELSE cut

\* the lines getDefinition can read, and the same lines without their comments
RawLines == textLines(view, DefStart)
DefLines == [k \in 1..Len(RawLines) |-> stripComments(RawLines[k])]

\* the k first of the lines ls, concatenated
firstLines(ls, k) == concatAll(SubSeq(ls, 1, k))

\* the number of '(' minus the number of ')' in s
net(s) ==
    Cardinality({k \in 1..Len(s) : s[k] = "("}) - Cardinality({k \in 1..Len(s) : s[k] = ")"})

\* what stands on the first line before the function opener, for the parser
\* that has an opener
beforeOpener(ls, p) ==
    IF ls = <<>> \/ p = "coffee" THEN <<>>
    ELSE LET opener == search(fnOpenerJs, ls[1]) IN
         IF opener.found THEN SubSeq(ls[1], 1, opener.start) ELSE <<>>

\* the lines of ls after which the count of all brackets read so far is zero
plainBalanced(ls) == {k \in 1..Len(ls) : net(firstLines(ls, k)) = 0}

\* the same, the brackets before the function opener left out
openerBalanced(ls, p) ==
    LET before == net(beforeOpener(ls, p)) IN
    {k \in 1..Len(ls) : net(firstLines(ls, k)) - before = 0}

\* the lines read so far: pos is after that many lines
LinesRead ==
    LET raw == RawLines
        start == DefStart
    IN Cardinality({k \in 1..Len(raw) :
                       start + Len(joinLines(SubSeq(raw, 1, k))) + 1 <= pos})

\* the names parseArgs gives the arguments of a declaration
argNames(declaration, p) ==
    LET args == parseArgs(parseFunction(declaration, p).args, p, DefaultSettings) IN
    [k \in 1..Len(args) |-> args[k].name]

\* the multi-line test: the four lines are gathered and give bar, baz, quux
MultiLineGathered ==
    (pc = "def_done" /\ view = MultiLineTest /\ point = 0 /\ parser = "js")
        => /\ definition = TestLine1 \o TestLine2 \o TestLine3 \o TestLine4
           /\ argNames(definition, parser)
                = << <<"b", "a", "r">>, <<"b", "a", "z">>, <<"q", "u", "u", "x">> >>

\* C7: getDefinition returns the concatenation, in buffer order, of the
\* comment-stripped lines from the start position up to and including the
\* first line after which the running count of '(' minus ')' is zero, and no
\* later line.  The running count is the one getDefinition keeps: on the
\* first line it starts at the function opener, so a bracket that wraps the
\* declaration is not counted.  The multi-line test gathers its four lines
\* into one declaration whose arguments are bar, baz, quux in that order.
C7_UpToFirstBalancedLine ==
    /\ pc = "def_done"
          => LET ls == DefLines
                 balanced == openerBalanced(ls, parser)
             IN (balanced # {} /\ least(balanced) <= 25)
                   => definition = firstLines(ls, least(balanced))
    /\ MultiLineGathered

\* C7 witness: a declaration wrapped in a bracket, its parameter list on two
\* lines: the lines are gathered up to the one that closes the list, while
\* the wrapping bracket is still open.
C7_Witness_WrappedDeclarationGathered ==
    /\ pc = "def_done" /\ parser = "js"
    /\ net(beforeOpener(DefLines, parser)) > 0
    /\ openerBalanced(DefLines, parser) # {}
    /\ least(openerBalanced(DefLines, parser)) = 2
    /\ 2 \notin plainBalanced(DefLines)
    /\ definition = firstLines(DefLines, 2)

\* C8: getDefinition never reads more than 25 lines; what it holds is the
\* text of the lines read so far, and when no line within the budget
\* balances the brackets it returns the text of all the lines it could read:
\* 25 lines, or fewer when the buffer ends first.
C8_ReadsAtMostMaxLines ==
    pc \in {"def_loop", "def_done"}
        => LET ls == DefLines
               read == LinesRead
           IN /\ defI <= 25 /\ read <= 25
              /\ definition = firstLines(ls, read)
              /\ (pc = "def_done" /\ \A k \in openerBalanced(ls, parser) : k > 25)
                    => read = IF Len(ls) < 25 THEN Len(ls) ELSE 25

\* C8 witness: a declaration of more than 25 lines whose brackets do not
\* balance within the budget: getDefinition has returned its first 25 lines.
C8_Witness_BudgetExhausted ==
    /\ pc = "def_done" /\ Len(DefLines) > 25
    /\ LinesRead = 25 /\ openBrackets # 0
    /\ definition = firstLines(DefLines, 25) /\ definition # <<>>

-----------------------------------------------------------------------------
(* Claims about parse and the command.                                     *)

\* matching or formatting the line raises, or the line is no declaration
NothingRecognised ==
    \/ parseBody(selfLine, inline, nameOverride, parser, pluginSettings).raised
    \/ ~parseFunction(selfLine, parser).found /\ ~parseVar(selfLine).found

\* the empty-body comment: the placeholder line with its single tab-stop and
\* the comment closer; in the single-line form the tab-stop and the closer
\* stand on the opener's line
EmptyBody ==
    IF inline THEN <<" ", "$", "0", " ", "*", "/">>
    ELSE linePrefix \o indentSpaces \o <<"$", "{", "0", ":">> \o trailingString \o <<"}">>
            \o <<"\n">> \o settings(parser).commentCloser
            \o (IF pluginSettings.newline_after_block THEN <<"\n">> ELSE <<>>)

\* C9: whenever matching or formatting the declaration raises, or no
\* declaration is recognised (no following line, or a line of neither
\* grammar), parse returns no lines and the command inserts the empty-body
\* comment; no exception leaves the command.  parse is called on every line
\* that is not itself a line of a comment.
C9_EmptyBodyWheneverNothingRecognised ==
    /\ pc # "run_raised"
    /\ (pc \in {"run_parsed", "run_generated"} /\ NothingRecognised) => runOut.none
    /\ (pc = "run_done" /\ ~isExistingComment(selfLine) /\ NothingRecognised)
          => runOut.none /\ written = EmptyBody

\* C9 witness: formatting the declaration raised (a parameter with an empty
\* default value), and the command has inserted the empty-body comment.
C9_Witness_RaisedGivesEmptyBody ==
    /\ pc = "run_done" /\ ~inline /\ parser = "js"
    /\ selfLine = DeclEmptyDefault
    /\ parseFunction(selfLine, parser).found
    /\ parseBody(selfLine, inline, nameOverride, parser, pluginSettings).raised
    /\ runOut.none /\ written = EmptyBody

\* the comment opens with a description line
DescriptionLineFirst ==
    runOut.lines # <<>> /\ startswith(runOut.lines[1], <<"$", "{", "1", ":">>)

\* C10: when text was typed after the opener, the description line of the
\* generated comment holds that text instead of '[name description]', for a
\* function and for a variable alike.
C10_TrailingTextIsTheDescription ==
    (pc = "run_done" /\ ~isExistingComment(selfLine) /\ trailingString # <<>>
        /\ DescriptionLineFirst)
        => startswith(written,
                      (IF inline THEN <<" ">> ELSE linePrefix \o indentSpaces)
                          \o <<"$", "{", "1", ":">> \o trailingString \o <<"}">>)

-----------------------------------------------------------------------------
(* The comment of a variable (formatVar).                                  *)

\* the line below the cursor was recognised as a variable, not as a function
RecognisedVar ==
    /\ ~pluginSettings.simple_mode
    /\ ~parseFunction(selfLine, parser).found
    /\ parseVar(selfLine).found

\* the type of a variable: from its value, else from its name, else unknown
typeOfVar(name, val, p, ps) ==
    IF val = <<>> THEN <<"[", "t", "y", "p", "e", "]">>
    ELSE IF guessTypeFromValue(val, p, ps).type # <<>> THEN guessTypeFromValue(val, p, ps).type
    ELSE IF guessTypeFromName(name, p, ps) # <<>> THEN guessTypeFromName(name, p, ps)
    ELSE <<"[", "t", "y", "p", "e", "]">>

\* the two lines of a variable's comment
twoLines(var, p, ps) ==
    << <<"$", "{", "1", ":", "[">> \o escape(var.name) \o <<" ", "d", "e", "s", "c", "r", "i",
          "p", "t", "i", "o", "n", "]", "}">>,
       <<"@", "t", "y", "p", "e", " ", "{", "$", "{", "1", ":">> \o typeOfVar(var.name,
             var.val, p, ps) \o <<"}", "}">> >>

\* the type on the second line of the parsed comment
typeIs(t) == Len(runOut.lines) = 2 /\ runOut.lines[2] = <<"@", "t", "y", "p", "e", " ", "{",
      "$", "{", "1", ":">> \o t \o <<"}", "}">>

\* C11: in block mode a recognised variable is formatted as exactly two
\* lines, the '[name description]' placeholder and one @type line; the type
\* is guessed from the value, else from the name, else it is '[type]', and an
\* empty value gives '[type]' (1 gives Number, a quoted string String, an
\* unknown identifier [type]).
C11_VariableIsTwoLines ==
    (pc \in {"run_parsed", "run_generated", "run_done"} /\ ~inline /\ RecognisedVar)
        => /\ runOut.lines = twoLines(parseVar(selfLine), parser, pluginSettings)
           /\ ~pluginSettings.lower_case_primitives
                 => /\ selfLine = DeclVar => typeIs(<<"N", "u", "m", "b", "e", "r">>)
                    /\ selfLine = DeclVarString => typeIs(<<"S", "t", "r", "i", "n", "g">>)
                    /\ selfLine = DeclVarUnknown => typeIs(<<"[", "t", "y", "p", "e", "]">>)
                    /\ selfLine = DeclVarEmpty => typeIs(<<"[", "t", "y", "p", "e", "]">>)

\* C11 witness: the value null gives no type, the name cb gives Function
C11_Witness_TypeFromTheName ==
    /\ pc = "run_parsed" /\ ~inline /\ RecognisedVar
    /\ selfLine = DeclCallback
    /\ parseVar(selfLine).val = <<"n", "u", "l", "l">>
    /\ guessTypeFromValue(<<"n", "u", "l", "l">>, parser, pluginSettings).type = <<>>
    /\ runOut.lines = << <<"$", "{", "1", ":", "[", "c", "b", " ", "d", "e", "s", "c", "r",
          "i", "p", "t", "i", "o", "n", "]", "}">>, <<"@", "t", "y", "p", "e", " ", "{", "$",
          "{", "1", ":", "F", "u", "n", "c", "t", "i", "o", "n", "}", "}">> >>

-----------------------------------------------------------------------------
(* The return line of a function (formatFunction, getFunctionReturnType).   *)

\* the function the command recognised on the line below the cursor
recognisedFunction == parseFunction(selfLine, parser)

\* the line below the cursor was recognised as a function and formatted
FormattedFunction ==
    /\ pc \in {"run_parsed", "run_generated", "run_done"}
    /\ ~pluginSettings.simple_mode
    /\ recognisedFunction.found
    /\ ~runOut.none

\* the name is one of the words, after an optional $ or _, and ends there or
\* goes on with a capital letter or an underscore
namedLike(name, words) ==
    \E w \in words : \E k \in {0, 1} :
        /\ k = 1 => (name # <<>> /\ name[1] \in {"$", "_"})
        /\ Len(name) >= k + Len(w)
        /\ SubSeq(name, k + 1, k + Len(w)) = w
        /\ Len(name) > k + Len(w) => name[k + Len(w) + 1] \in UpperCase \cup {"_"}

capitalizedName(name) == name # <<>> /\ name[1] \in UpperCase
generatorName(name) == name # <<>> /\ name[1] = "*"

\* the lines that open with the return tag
returnLinesOf(lines, ps) ==
    SelectSeq(lines, LAMBDA l : startswith(l, orElse(ps.return_tag, <<"@", "r", "e", "t", "u",
          "r", "n">>) \o <<" ", "{">>))

\* the return line of the type t
returnLineOf(t, ps) == orElse(ps.return_tag, <<"@", "r", "e", "t", "u", "r", "n">>) \o <<" ",
      "{", "$", "{", "1", ":">> \o t \o <<"}", "}">>

-----------------------------------------------------------------------------
(* The yield line of a generator (getMatchingNotations).                   *)

\* the lines that open with a yield tag
yieldLinesOf(lines) == SelectSeq(lines, LAMBDA l : startswith(l, <<"@", "y", "i", "e", "l",
      "d">>))

\* the yield tag that mirrors the return tag
yieldTagOf(ps) ==
    IF ps.return_tag # <<>> /\ ps.return_tag[Len(ps.return_tag)] = "s"
    THEN <<"@", "y", "i", "e", "l", "d", "s", " ", "{">> ELSE <<"@", "y", "i", "e", "l", "d",
          " ", "{">>

\* C13: for a generator-marked function name and every value of the
\* configured return tag, the formatted lines hold no return line and exactly
\* one yield line, tagged '@yields' when the return tag ends in 's' and
\* '@yield' otherwise.
C13_GeneratorHasOneYieldLine ==
    (/\ pc \in {"run_parsed", "run_generated", "run_done"}
     /\ ~pluginSettings.simple_mode
     /\ recognisedFunction.found /\ generatorName(recognisedFunction.name))
        => /\ returnLinesOf(runOut.lines, pluginSettings) = <<>>
           /\ Len(yieldLinesOf(runOut.lines)) = 1
           /\ startswith(yieldLinesOf(runOut.lines)[1], yieldTagOf(pluginSettings))

-----------------------------------------------------------------------------
(* The tab-stops of the final snippet (generateSnippet, createSnippet).     *)

\* the positions of the snippet's tab-stops: a dollar sign that is not escaped
tabStopsOf(s) == { i \in 1..Len(s) : s[i] = "$" /\ (i = 1 \/ s[i - 1] # "\\") }

\* the first character of the index of the tab-stop at i, in $n and in ${n:...}
indexOf(s, i) ==
    IF i + 1 <= Len(s) /\ s[i + 1] = "{"
    THEN IF i + 2 <= Len(s) THEN s[i + 2] ELSE ""
    ELSE IF i + 1 <= Len(s) THEN s[i + 1] ELSE ""

numberedTabStops(s) ==
    { i \in tabStopsOf(s) : indexOf(s, i) \in {"1", "2", "3", "4", "5", "6", "7", "8", "9"} }

terminalTabStops(s) == { i \in tabStopsOf(s) : indexOf(s, i) = "0" }

\* C14: a final snippet without a numbered tab-stop holds exactly one
\* terminal tab-stop of index 0, for every combination of options and every
\* line sequence parse returns.
C14_TerminalTabStopWhenNoneNumbered ==
    (pc \in {"run_generated", "run_done"} /\ ~isExistingComment(selfLine)
        /\ numberedTabStops(snippet) = {})
        => Cardinality(terminalTabStops(snippet)) = 1

-----------------------------------------------------------------------------
(* alignTags on its own: the alignment applied to a line sequence, and      *)
(* applied again to its own result.                                        *)

\* most lines of an enumerated line sequence handed to alignTags
MaxAlignLines == 2

\* @param {${1:Function}} callback ${1:[description]}
LineParamTyped == <<"@", "p", "a", "r", "a", "m", " ", "{", "$", "{", "1", ":", "F", "u", "n",
      "c", "t", "i", "o", "n", "}", "}", " ", "c", "a", "l", "l", "b", "a", "c", "k", " ", "$",
      "{", "1", ":", "[", "d", "e", "s", "c", "r", "i", "p", "t", "i", "o", "n", "]", "}">>

\* @return {${1:[type]}}  ${1:[description]}: the return line of a function
\* with arguments under deep alignment
LineReturnSpaced == <<"@", "r", "e", "t", "u", "r", "n", " ", "{", "$", "{", "1", ":", "[",
      "t", "y", "p", "e", "]", "}", "}", " ", " ", "$", "{", "1", ":", "[", "d", "e", "s", "c",
      "r", "i", "p", "t", "i", "o", "n", "]", "}">>

\* @author me
LineAuthor == <<"@", "a", "u", "t", "h", "o", "r", " ", "m", "e">>

AlignLinePool ==
    {LineDescription, LineParam, LineParamTyped, LineReturn, LineReturnSpaced, LineAuthor}

\* function on(callback, isOk) {
DeclHandlers == <<"f", "u", "n", "c", "t", "i", "o", "n", " ", "o", "n", "(", "c", "a", "l",
      "l", "b", "a", "c", "k", ",", " ", "i", "s", "O", "k", ")", " ", "{">>

AlignDeclarations ==
    {DeclFunction, DeclHandlers, DeclGenerator, DeclOptions, DeclSetter, DeclPredicate,
     DeclCoffee, DeclVar}

\* the settings alignTags reads, with an alignment mode that calls it
AlignConfigurations ==
    { DefaultSettings,
      [DefaultSettings EXCEPT !.align_tags = "shallow"],
      [DefaultSettings EXCEPT !.per_section_indent = TRUE],
      [DefaultSettings EXCEPT !.min_spaces_between_columns = 2],
      [DefaultSettings EXCEPT !.return_tag = <<"@", "r", "e", "t", "u", "r", "n", "s">>],
      [DefaultSettings EXCEPT !.extra_tags = << <<"@", "a", "u", "t", "h", "o", "r", " ", "m",
            "e", " ", "{", "{", "d", "a", "t", "e", "}", "}">>, <<"@", "s", "i", "n", "c", "e",
            " ", "$", "{", "1", ":", "v", "}", " ", "n", "o", "w">> >>] }

\* the lines generateSnippet hands to alignTags for a declaration
linesToAlign(line, p, ps) == substituteVariables(parse(line, FALSE, <<>>, p, ps).lines)

\* `out = self.alignTags(out)` is entered with lines made by hand or with the
\* lines of a formatted declaration
InitAlign ==
    /\ pc = "align_call"
    /\ SplitIdle /\ TabsIdle /\ HostIdle /\ DefIdle /\ NoteIdle /\ SpaceIdle
    /\ inline = FALSE
    /\ pluginSettings \in AlignConfigurations
    /\ trailingString = <<>> /\ indentSpaces = <<>> /\ nameOverride = <<>>
    /\ selfLine = <<>> /\ runOut = <<>> /\ snippet = <<>> /\ written = <<>> /\ writes = 0
    /\ \/ alignLines \in UNION {[1..k -> AlignLinePool] : k \in 1..MaxAlignLines}
       \/ \E d \in AlignDeclarations : \E q \in Parsers :
             /\ alignLines = linesToAlign(d, q, pluginSettings)
             /\ alignLines # <<>>
    /\ alignedOnce = <<>> /\ alignedTwice = <<>>

\* alignTags(out)
AlignTags ==
    /\ pc = "align_call"
    /\ alignedOnce' = alignTags(alignLines, pluginSettings)
    /\ pc' = "aligned"
    /\ UNCHANGED <<alignLines, alignedTwice, runVars, notAlign>>

\* alignTags applied to the lines it returned
AlignTagsAgain ==
    /\ pc = "aligned"
    /\ alignedTwice' = alignTags(alignedOnce, pluginSettings)
    /\ pc' = "aligned_again"
    /\ UNCHANGED <<alignLines, alignedOnce, runVars, notAlign>>

NextAlign == AlignTags \/ AlignTagsAgain

SpecAlign == InitAlign /\ [][NextAlign]_vars

-----------------------------------------------------------------------------
(* The columns of the aligned lines (alignTags).                           *)

\* a line as the editor shows it: without the tab-stop wrappers
rendered(s) == unescapeDollar(subGroup1(finditer(tabStop, s, 0), s, 0))

\* where the words of a rendered line start, 0-based
wordStarts(r) == { i \in 0..(Len(r) - 1) : r[i + 1] # " " /\ (i = 0 \/ r[i] = " ") }

\* the columns of a line that hold text
filled(line) == { k \in 1..Len(splitSpace(line)) : splitSpace(line)[k] # <<>> }

\* the columns of a line with their rendered offsets in the aligned line:
\* <<k, the start of the word that column k became>>
offsetsOf(line, alignedLine) ==
    LET starts == wordStarts(rendered(alignedLine))
        columns == filled(line)
    IN { <<k, CHOOSE i \in starts :
                  Cardinality({j \in starts : j < i}) = Cardinality({j \in columns : j < k})>>
         : k \in columns }

\* the columns of the lines numbered in which start at the same offsets
ColumnsLineUp(which) ==
    LET offsets == UNION { offsetsOf(alignLines[a], alignedOnce[a]) : a \in which } IN
    /\ \A a \in which :
          Cardinality(wordStarts(rendered(alignedOnce[a]))) = Cardinality(filled(alignLines[a]))
    /\ \A x \in offsets : \A y \in offsets : x[1] = y[1] => x[2] = y[2]

\* the tag lines
tagLines == { a \in 1..Len(alignLines) : startswith(alignLines[a], <<"@">>) }

\* the tag lines alignTags measures: not an @author line, and not the return
\* line when the indentation is per section
measuredLines ==
    { a \in tagLines :
        /\ ~startswith(alignLines[a], <<"@", "a", "u", "t", "h", "o", "r">>)
        /\ ~(/\ pluginSettings.per_section_indent
             /\ startswith(alignLines[a], orElse(pluginSettings.return_tag, <<"@", "r", "e",
                   "t", "u", "r", "n">>))) }

deeplyAligned == pc \in {"aligned", "aligned_again"} /\ pluginSettings.align_tags = "deep"

\* C15 as stated: after deep alignment the k-th space-separated column
\* starts at the same rendered offset on every tag line that has a k-th
\* column, so the types and the descriptions of the @param lines and of the
\* @return line line up.
C15_ColumnsLineUpOnEveryTagLine == deeplyAligned => ColumnsLineUp(tagLines)

\* C15: after deep alignment the k-th space-separated column starts at the
\* same rendered offset on every tag line the alignment measures, which are
\* all tag lines but an @author line and, when the indentation is per
\* section, the return line.
C15_ColumnsLineUpOnMeasuredLines == deeplyAligned => ColumnsLineUp(measuredLines)

\* C15 witness: the types and names of two parameters differ in width, and
\* the shorter ones were padded
C15_Witness_NamesPadded ==
    /\ pc = "aligned" /\ pluginSettings = DefaultSettings
    /\ alignLines = linesToAlign(DeclHandlers, "js", pluginSettings)
    /\ Len(alignLines) = 4 /\ measuredLines = {2, 3, 4}
    /\ alignLines[3] = <<"@", "p", "a", "r", "a", "m", " ", "{", "$", "{", "1", ":", "B", "o",
          "o", "l", "e", "a", "n", "}", "}", " ", "i", "s", "O", "k", " ", "$", "{", "1", ":",
          "[", "d", "e", "s", "c", "r", "i", "p", "t", "i", "o", "n", "]", "}">>
    /\ alignedOnce[2] = <<"@", "p", "a", "r", "a", "m", " ", " ", "{", "$", "{", "1", ":", "F",
          "u", "n", "c", "t", "i", "o", "n", "}", "}", " ", "c", "a", "l", "l", "b", "a", "c",
          "k", " ", "$", "{", "1", ":", "[", "d", "e", "s", "c", "r", "i", "p", "t", "i", "o",
          "n", "]", "}">>
    /\ alignedOnce[3] = <<"@", "p", "a", "r", "a", "m", " ", " ", "{", "$", "{", "1", ":", "B",
          "o", "o", "l", "e", "a", "n", "}", "}", " ", " ", "i", "s", "O", "k", " ", " ", " ",
          " ", " ", "$", "{", "1", ":", "[", "d", "e", "s", "c", "r", "i", "p", "t", "i", "o",
          "n", "]", "}">>
    /\ alignedOnce[4] = <<"@", "r", "e", "t", "u", "r", "n", " ", "{", "$", "{", "1", ":", "[",
          "t", "y", "p", "e", "]", "}", "}", " ", " ", " ", " ", " ", " ", " ", " ", " ", " ",
          " ", " ", "$", "{", "1", ":", "[", "d", "e", "s", "c", "r", "i", "p", "t", "i", "o",
          "n", "]", "}">>

\* C16: alignment is idempotent: aligning the aligned lines again, in either
\* mode, changes nothing.
C16_AlignTagsIsIdempotent == pc = "aligned_again" => alignedTwice = alignedOnce

-----------------------------------------------------------------------------
(* The blank lines between the sections (createSnippet).                   *)

\* the lines of the comment body in the snippet: between the opener's line
\* and the closer
bodyLinesOf(s) ==
    LET rows == cutAt(s, {k \in 1..Len(s) : s[k] = "\n"}) IN SubSeq(rows, 2, Len(rows) - 1)

\* a blank comment line
blankLine(row) == row = <<" ", "*">>

\* a tag line of the body, after the prefix and the indentation
tagRow(row) == startswith(row, <<" ", "*">> \o indentSpaces \o <<"@">>)

\* the tag name of a tag line: the letters after the @
tagNameOf(row) ==
    LET text == SubSeq(row, Len(<<" ", "*">> \o indentSpaces \o <<"@">>) + 1, Len(row))
        stops == {k \in 1..Len(text) : text[k] \notin Letters}
    IN IF stops = {} THEN text
       ELSE SubSeq(text, 1, (CHOOSE k \in stops : \A j \in stops : k <= j) - 1)

\* the command has inserted a block comment with lines in it
BlockWritten ==
    /\ pc = "run_done" /\ ~isExistingComment(selfLine)
    /\ ~inline /\ runOut.lines # <<>>

\* the tag lines of rows before row i
tagRowsBefore(rows, i) == { j \in 1..(i - 1) : tagRow(rows[j]) }

\* row i is the first line of a new tag group: no tag line before it, or the
\* last one before it has another tag name
opensGroup(rows, i) ==
    /\ tagRow(rows[i])
    /\ \/ tagRowsBefore(rows, i) = {}
       \/ LET last == CHOOSE j \in tagRowsBefore(rows, i) :
                          \A m \in tagRowsBefore(rows, i) : m <= j
          IN tagNameOf(rows[last]) # tagNameOf(rows[i])

\* the rows of the snippet the command wrote
writtenRows == bodyLinesOf(written)

\* C17: with the spacing of all sections, the snippet has exactly one blank
\* comment line before the first line of each new tag group and none between
\* two lines with the same tag name or anywhere else; with the function
\* description line disabled no blank line precedes the first tag group.
C17_BlankLineBeforeEachTagGroup ==
    (BlockWritten /\ pluginSettings.spacer_between_sections = "true")
        => LET rows == writtenRows IN
           /\ \A i \in 1..Len(rows) :
                 /\ blankLine(rows[i]) => (i < Len(rows) /\ opensGroup(rows, i + 1))
                 /\ (/\ opensGroup(rows, i)
                     /\ ~(~pluginSettings.function_description /\ tagRowsBefore(rows, i) = {}))
                       => (i > 1 /\ blankLine(rows[i - 1]))
                 /\ (~pluginSettings.function_description /\ tagRowsBefore(rows, i) = {}
                     /\ tagRow(rows[i]))
                       => (i > 1 => ~blankLine(rows[i - 1]))
           /\ (/\ selfLine = DeclFunction /\ trailingString = <<>>
               /\ ~pluginSettings.function_description)
                 => written = <<"\n", " ", "*", " ", "@", "p", "a", "r", "a", "m", " ", " ",
                       "{", "$", "{", "1", ":", "[", "t", "y", "p", "e", "]", "}", "}", " ",
                       "b", "a", "r", " ", "$", "{", "2", ":", "[", "d", "e", "s", "c", "r",
                       "i", "p", "t", "i", "o", "n", "]", "}">>
                        \o <<"\n", " ", "*", " ", "@", "p", "a", "r", "a", "m", " ", " ", "{",
                              "$", "{", "3", ":", "[", "t", "y", "p", "e", "]", "}", "}", " ",
                              "b", "a", "z", " ", "$", "{", "4", ":", "[", "d", "e", "s", "c",
                              "r", "i", "p", "t", "i", "o", "n", "]", "}">>
                        \o <<"\n", " ", "*">>
                        \o <<"\n", " ", "*", " ", "@", "r", "e", "t", "u", "r", "n", " ", "{",
                              "$", "{", "5", ":", "[", "t", "y", "p", "e", "]", "}", "}", " ",
                              " ", " ", " ", " ", "$", "{", "6", ":", "[", "d", "e", "s", "c",
                              "r", "i", "p", "t", "i", "o", "n", "]", "}">>
                        \o <<"\n", " ", "*", "/">>

\* C17 witness: the description, a blank line, the two @param lines side by
\* side, a blank line, the @return line
C17_Witness_ParamsStayAdjacent ==
    /\ BlockWritten /\ pluginSettings.spacer_between_sections = "true"
    /\ pluginSettings.function_description
    /\ selfLine = DeclFunction /\ trailingString = <<>> /\ parser = "js"
    /\ written = <<"\n", " ", "*", " ", "$", "{", "1", ":", "[", "f", "o", "o", " ", "d", "e",
          "s", "c", "r", "i", "p", "t", "i", "o", "n", "]", "}">>
                    \o <<"\n", " ", "*">>
                    \o <<"\n", " ", "*", " ", "@", "p", "a", "r", "a", "m", " ", " ", "{", "$",
                          "{", "2", ":", "[", "t", "y", "p", "e", "]", "}", "}", " ", "b", "a",
                          "r", " ", "$", "{", "3", ":", "[", "d", "e", "s", "c", "r", "i", "p",
                          "t", "i", "o", "n", "]", "}">>
                    \o <<"\n", " ", "*", " ", "@", "p", "a", "r", "a", "m", " ", " ", "{", "$",
                          "{", "4", ":", "[", "t", "y", "p", "e", "]", "}", "}", " ", "b", "a",
                          "z", " ", "$", "{", "5", ":", "[", "d", "e", "s", "c", "r", "i", "p",
                          "t", "i", "o", "n", "]", "}">>
                    \o <<"\n", " ", "*">>
                    \o <<"\n", " ", "*", " ", "@", "r", "e", "t", "u", "r", "n", " ", "{", "$",
                          "{", "6", ":", "[", "t", "y", "p", "e", "]", "}", "}", " ", " ", " ",
                          " ", " ", "$", "{", "7", ":", "[", "d", "e", "s", "c", "r", "i", "p",
                          "t", "i", "o", "n", "]", "}">>
                    \o <<"\n", " ", "*", "/">>

\* C18: with the spacing after the description, the snippet has exactly one
\* blank comment line, right after the description block and before the
\* first tag line, and none anywhere else; with the function description
\* line disabled it has no blank line at all.
C18_OneBlankLineAfterDescription ==
    (BlockWritten /\ pluginSettings.spacer_between_sections = "after_description")
        => LET rows == writtenRows
               blanks == { i \in 1..Len(rows) : blankLine(rows[i]) }
               tags == { i \in 1..Len(rows) : tagRow(rows[i]) }
           IN IF ~pluginSettings.function_description \/ tags = {}
              THEN blanks = {}
              ELSE /\ Cardinality(blanks) = 1
                   /\ \A i \in blanks :
                         /\ i > 1 /\ i < Len(rows)
                         /\ tagRow(rows[i + 1]) /\ tagRowsBefore(rows, i) = {}
                         /\ \A j \in 1..(i - 1) : ~blankLine(rows[j]) /\ ~tagRow(rows[j])

\* C18 witness: one blank line, between the description and the first @param
C18_Witness_BlankAfterDescriptionOnly ==
    /\ BlockWritten /\ pluginSettings.spacer_between_sections = "after_description"
    /\ pluginSettings.function_description
    /\ selfLine = DeclFunction /\ trailingString = <<>> /\ parser = "js"
    /\ written = <<"\n", " ", "*", " ", "$", "{", "1", ":", "[", "f", "o", "o", " ", "d", "e",
          "s", "c", "r", "i", "p", "t", "i", "o", "n", "]", "}">>
                    \o <<"\n", " ", "*">>
                    \o <<"\n", " ", "*", " ", "@", "p", "a", "r", "a", "m", " ", " ", "{", "$",
                          "{", "2", ":", "[", "t", "y", "p", "e", "]", "}", "}", " ", "b", "a",
                          "r", " ", "$", "{", "3", ":", "[", "d", "e", "s", "c", "r", "i", "p",
                          "t", "i", "o", "n", "]", "}">>
                    \o <<"\n", " ", "*", " ", "@", "p", "a", "r", "a", "m", " ", " ", "{", "$",
                          "{", "4", ":", "[", "t", "y", "p", "e", "]", "}", "}", " ", "b", "a",
                          "z", " ", "$", "{", "5", ":", "[", "d", "e", "s", "c", "r", "i", "p",
                          "t", "i", "o", "n", "]", "}">>
                    \o <<"\n", " ", "*", " ", "@", "r", "e", "t", "u", "r", "n", " ", "{", "$",
                          "{", "6", ":", "[", "t", "y", "p", "e", "]", "}", "}", " ", " ", " ",
                          " ", " ", "$", "{", "7", ":", "[", "d", "e", "s", "c", "r", "i", "p",
                          "t", "i", "o", "n", "]", "}">>
                    \o <<"\n", " ", "*", "/">>

-----------------------------------------------------------------------------
(* What the command asks of the host (run, write).                         *)

\* one insertion per invocation, made by the last statement: the
\* continuation line when the next line is a line of a comment, else the
\* snippet, after the text behind the cursor is gone from its line
OneInsertion ==
    /\ pc = "run_done" => writes = 1
    /\ pc # "run_done" => writes = 0 /\ written = <<>>
    /\ (pc = "run_done" /\ isExistingComment(selfLine))
          => /\ written = <<"\n", " ", "*">> \o spaces(pluginSettings.indentation_spaces)
             /\ runOut = [none |-> TRUE, lines |-> <<>>] /\ snippet = <<>>
    /\ (pc = "run_done" /\ ~isExistingComment(selfLine))
          => /\ viewLine(view, point).b = point
             /\ written = snippet
             /\ snippet = generateSnippet(runOut.lines, inline, trailingString, indentSpaces,
                                          parser, pluginSettings)

\* a run that finds a line of a comment below the cursor changes neither
\* the buffer nor the parse result
ExistingCommentLeftAlone ==
    isExistingComment(selfLine') => (view' = view /\ (pc # "run_call" => runOut' = runOut))

\* the buffer changes only by the erasure of the text behind the cursor, and
\* before the insertion
ErasedFirst == view' # view => (writes' = 0 /\ view' = erase(view, trailingRgn(view, point)))

\* C19: every invocation issues exactly one insertion; when the line after
\* the cursor is a line of an existing comment it is the continuation line
\* only, nothing is erased and nothing is parsed; otherwise the text behind
\* the cursor is erased first and the one insertion carries the final snippet.
C19_ExactlyOneInsertion ==
    /\ []OneInsertion
    /\ [][ExistingCommentLeftAlone /\ ErasedFirst]_vars

\* C19 witness: text was typed after the opener, the next line is a line of
\* a comment: the continuation line is inserted and the typed text is still
\* in the buffer
C19_Witness_ContinuationLineOnly ==
    /\ pc = "run_done" /\ isExistingComment(selfLine)
    /\ selfLine = DeclExisting
    /\ writes = 1 /\ written = <<"\n", " ", "*", " ">>
    /\ substr(view, trailingRgn(view, point)) = TrailingText

-----------------------------------------------------------------------------
(* The brackets before the function opener (getDefinition, fnOpener).       *)

\* the opener of a declaration made with the function keyword:
\* 'function', an optional name, and the bracket of the argument list
keywordOpener ==
    Cat(<<Lit(kwFunction), Star(Chr(Space \cup {"*"})), Opt(identifier),
          Star(Chr(Space)), Lit(<<"(">>)>>)

\* what stands on the first line before the opener of the declaration
beforeDeclaration(ls) ==
    LET opener == search(keywordOpener, ls[1]) IN SubSeq(ls[1], 1, opener.start)

\* the first line that is read holds a declaration made with the function
\* keyword
DeclarationOnFirstLine ==
    /\ pc = "def_done" /\ parser = "js"
    /\ DefLines # <<>> /\ search(keywordOpener, DefLines[1]).found

\* C20: on the first line getDefinition scans, the brackets before the
\* function opener of the declaration are not counted, whatever text stands
\* before the opener; a declaration wrapped in an outer bracket balances at
\* the close of its own argument list.
C20_BracketsBeforeTheOpenerNotCounted ==
    DeclarationOnFirstLine
        => LET ls == DefLines
               before == net(beforeDeclaration(ls))
               balanced == {k \in 1..Len(ls) : net(firstLines(ls, k)) - before = 0}
           IN (balanced # {} /\ least(balanced) <= 25)
                 => definition = firstLines(ls, least(balanced))

-----------------------------------------------------------------------------
(* checkMatch on its own: prefix rules (getMatchingNotations).             *)

MaxPrefixLen == 2
MaxNameLen == 3

\* the characters the prefixes and the names are made of: a lowercase letter,
\* an uppercase letter, the underscore and a character that is none of them
NoteChars == {"a", "B", "_", "$"}

NotePrefixes == UNION {[1..k -> NoteChars] : k \in 0..MaxPrefixLen}

NoteNames == UNION {[1..k -> NoteChars] : k \in 0..MaxNameLen}

\* `checkMatch(rule)` is entered with a rule {'prefix': ...} of the notation
\* map and the name getMatchingNotations was given
InitNote ==
    /\ pc = "note_call"
    /\ SplitIdle /\ TabsIdle /\ HostIdle /\ DefIdle /\ RunIdle /\ AlignIdle /\ SpaceIdle
    /\ \E q \in NotePrefixes : noteRule = [noRule EXCEPT !.hasPrefix = TRUE, !.prefix = q]
    /\ noteName \in NoteNames
    /\ noteMatched = FALSE

\* checkMatch(rule), its result taken as filter() takes it
CheckMatch ==
    /\ pc = "note_call"
    /\ noteMatched' = checkMatch(noteRule, noteName)
    /\ pc' = "note_matched"
    /\ UNCHANGED <<noteRule, noteName, notNote>>

NextNote == CheckMatch

SpecNote == InitNote /\ [][NextNote]_vars

\* the character after the prefix is the end of the name, an uppercase letter
\* or an underscore
atWordBoundary(q, n) ==
    \/ Len(n) = Len(q)
    \/ Len(n) > Len(q) /\ n[Len(q) + 1] \in UpperCase \cup {"_"}

endsInLowerCase(q) == q # <<>> /\ q[Len(q)] \in LowerCase

\* C21 as stated: a prefix rule matches a name exactly when the name starts
\* with the literal prefix and, only if the prefix ends in a lowercase letter,
\* the prefix is followed by the end of the name, an uppercase letter or an
\* underscore; a prefix that does not end in a lowercase letter matches every
\* name that starts with it.
C21_PrefixBoundaryOnlyAfterLowerCase ==
    pc = "note_matched" =>
        (noteMatched <=>
            /\ startswith(noteName, noteRule.prefix)
            /\ endsInLowerCase(noteRule.prefix) => atWordBoundary(noteRule.prefix, noteName))

\* what the code does: the boundary is asked for whenever the prefix holds a
\* lowercase letter anywhere
C21_BoundaryWhenAnyLowerCase ==
    pc = "note_matched" =>
        (noteMatched <=>
            /\ startswith(noteName, noteRule.prefix)
            /\ (\E k \in 1..Len(noteRule.prefix) : noteRule.prefix[k] \in LowerCase)
                   => atWordBoundary(noteRule.prefix, noteName))

\* the prefix 'a_' is followed by a lowercase letter and the rule has not matched
C21_Witness_UnderscorePrefixRefused ==
    /\ pc = "note_matched"
    /\ noteRule.prefix = <<"a", "_">>
    /\ noteName = <<"a", "_", "a">>
    /\ ~noteMatched

-----------------------------------------------------------------------------
(* Where the tags of the notation rules go (formatFunction).               *)

\* the tag lines of the notation rules that match the recognised name
notationLines ==
    notationTags(getMatchingNotations(recognisedFunction.name, parser, pluginSettings))

\* the last n of the lines
lastLines(lines, n) == SubSeq(lines, Len(lines) - n + 1, Len(lines))

\* a notation rule with tags matched the name of the formatted function
NotationTagged == FormattedFunction /\ notationLines # <<>>

\* C22 as stated: in the lines formatFunction returns, the tag lines of the
\* matching notation rules are the last lines, for both settings of
\* extra_tags_go_after: no description, method, extra-tag, parameter or
\* return line follows them.
C22_NotationTagsAreLast ==
    NotationTagged =>
        /\ Len(runOut.lines) >= Len(notationLines)
        /\ lastLines(runOut.lines, Len(notationLines)) = notationLines

\* what the code does: the extra tags that go after the parameters follow the
\* notation tags, and nothing else does
C22_OnlyExtraTagsFollow ==
    NotationTagged =>
        \E after \in {IF pluginSettings.extra_tags_go_after
                      THEN pluginSettings.extra_tags ELSE <<>>} :
            /\ Len(runOut.lines) >= Len(notationLines) + Len(after)
            /\ lastLines(runOut.lines, Len(notationLines) + Len(after))
                   = notationLines \o after

\* the '@predicate' line of the rule is followed by the extra tag '@since 1.0'
C22_Witness_ExtraTagAfterNotationTag ==
    /\ NotationTagged
    /\ pluginSettings.extra_tags_go_after
    /\ Len(runOut.lines) >= 2
    /\ lastLines(runOut.lines, 2) = <<<<"@", "p", "r", "e", "d", "i", "c", "a", "t", "e">>,
          <<"@", "s", "i", "n", "c", "e", " ", "1", ".", "0">>>>

-----------------------------------------------------------------------------
(* The spacing loops of createSnippet, one iteration at a time.            *)

MaxSpaceLines == 3

\* lines createSnippet may be given: text, an empty line, tag lines of three
\* tags, one of them indented, and an '@' that opens no tag
SpaceLinePool ==
    { <<"t", "e", "x", "t">>, <<>>, <<"@", "p", "a", "r", "a", "m", " ", "a">>, <<"@", "p",
          "a", "r", "a", "m", " ", "b">>, <<"@", "r", "e", "t", "u", "r", "n">>, <<" ", " ",
          "@", "s", "i", "n", "c", "e", " ", "1">>, <<"@", " ", "x">> }

\* `res = re.match("^\\s*@([a-zA-Z]+)", line)` for each line the list can hold
tagLineMatch == [l \in SpaceLinePool |-> match(tagLine, l)]

\* the two settings createSnippet reads before and inside the loops
SpaceConfigurations ==
    { [DefaultSettings EXCEPT !.spacer_between_sections = s, !.function_description = d] :
          s \in {"true", "after_description", "false"}, d \in BOOLEAN }

\* createSnippet(out) is entered
InitSpace ==
    /\ pc = "space_call"
    /\ SplitIdle /\ TabsIdle /\ HostIdle /\ DefIdle /\ AlignIdle /\ NoteIdle
    /\ inline = FALSE
    /\ pluginSettings \in SpaceConfigurations
    /\ trailingString = <<>> /\ indentSpaces = <<>> /\ nameOverride = <<>>
    /\ selfLine = <<>> /\ runOut = <<>> /\ snippet = <<>> /\ written = <<>> /\ writes = 0
    /\ spaceLines \in UNION {[1..k -> SpaceLinePool] : k \in 0..MaxSpaceLines}
    /\ spaceOut = spaceLines
    /\ spaceIdx = 0
    /\ spaceLastTag = <<>>
    /\ spaceLastIsTag = FALSE

\* `if out:` and the tests of spacer_between_sections, up to the first
\* `enumerate(out)`
SpaceEnter ==
    /\ pc = "space_call"
    /\ pc' = IF spaceOut = <<>> THEN "space_done"
             ELSE IF pluginSettings.spacer_between_sections = "true" THEN "space_sections"
             ELSE IF /\ pluginSettings.spacer_between_sections = "after_description"
                     /\ pluginSettings.function_description
             THEN "space_after"
             ELSE "space_done"
    /\ UNCHANGED <<spaceVars, runVars, notSpace>>

\* one iteration of the loop of spacer_between_sections == True: the iterator
\* hands out the line at its position and moves on by one, whatever the body
\* inserted
SpaceSections ==
    /\ pc = "space_sections"
    /\ spaceIdx < Len(spaceOut)
    /\ \E res \in {tagLineMatch[spaceOut[spaceIdx + 1]]} :
       \E tag \in {IF res.found THEN group(res, spaceOut[spaceIdx + 1], "1") ELSE <<>>} :
          IF res.found /\ spaceLastTag # <<tag>>
          THEN /\ spaceOut' = IF ~pluginSettings.function_description /\ spaceLastTag = <<>>
                              THEN spaceOut
                              ELSE insertBlank(spaceOut, spaceIdx)
               /\ spaceLastTag' = <<tag>>
          ELSE UNCHANGED <<spaceOut, spaceLastTag>>
    /\ spaceIdx' = spaceIdx + 1
    /\ UNCHANGED <<pc, spaceLines, spaceLastIsTag, runVars, notSpace>>

\* one iteration of the loop of spacer_between_sections == 'after_description'
SpaceAfterDescription ==
    /\ pc = "space_after"
    /\ spaceIdx < Len(spaceOut)
    /\ IF tagLineMatch[spaceOut[spaceIdx + 1]].found
       THEN /\ spaceOut' = IF ~spaceLastIsTag THEN insertBlank(spaceOut, spaceIdx)
                           ELSE spaceOut
            /\ spaceLastIsTag' = TRUE
       ELSE UNCHANGED <<spaceOut, spaceLastIsTag>>
    /\ spaceIdx' = spaceIdx + 1
    /\ UNCHANGED <<pc, spaceLines, spaceLastTag, runVars, notSpace>>

\* the iterator is past the end of the list: the loop is left
SpaceReturn ==
    /\ pc \in {"space_sections", "space_after"}
    /\ spaceIdx >= Len(spaceOut)
    /\ pc' = "space_done"
    /\ UNCHANGED <<spaceVars, runVars, notSpace>>

NextSpace == SpaceEnter \/ SpaceSections \/ SpaceAfterDescription \/ SpaceReturn

SpecSpace == InitSpace /\ [][NextSpace]_vars

\* the pass is straight-line code of one call: once entered it takes its
\* next step
SpecSpaceFair == SpecSpace /\ WF_vars(NextSpace)

\* the lines from position k on whose positions are not in the set, in order
RECURSIVE withoutLinesFrom(_, _, _)
withoutLinesFrom(lines, dropped, k) ==
    IF k > Len(lines) THEN <<>>
    ELSE (IF k \in dropped THEN <<>> ELSE <<lines[k]>>)
         \o withoutLinesFrom(lines, dropped, k + 1)

\* result is the input with empty lines inserted, no two of them next to
\* each other
OnlyBlankLinesAdded(input, result) ==
    \E added \in SUBSET { k \in 1..Len(result) : result[k] = <<>> } :
        /\ \A k \in added : k + 1 \notin added
        /\ withoutLinesFrom(result, added, 1) = input

SpacingDone == pc = "space_done"

\* the loops give what createSnippet's spacing gives in one step
SpacingAgrees ==
    SpacingDone =>
        spaceOut = IF spaceLines = <<>> THEN <<>>
                   ELSE IF pluginSettings.spacer_between_sections = "true"
                   THEN spaceSections(spaceLines, 0, FALSE, <<>>, pluginSettings)
                   ELSE IF /\ pluginSettings.spacer_between_sections = "after_description"
                           /\ pluginSettings.function_description
                   THEN spaceAfterDescription(spaceLines, 0, FALSE)
                   ELSE spaceLines

\* C23: the section-spacing pass of createSnippet, which inserts into the
\* list it iterates over, terminates for every line sequence, and it only
\* adds blank lines: taking the inserted lines away gives the input lines,
\* unchanged and in the same order, and no two inserted blank lines are
\* adjacent.
C23_SpacingTerminatesAndOnlyAddsBlanks ==
    /\ [](SpacingDone => OnlyBlankLinesAdded(spaceLines, spaceOut))
    /\ <>SpacingDone

\* a blank line went in before each of two tag groups and the pass is over
C23_Witness_TwoBlanksInserted ==
    /\ SpacingDone
    /\ spaceLines = <<<<"t", "e", "x", "t">>, <<"@", "p", "a", "r", "a", "m", " ", "a">>,
          <<"@", "r", "e", "t", "u", "r", "n">>>>
    /\ spaceOut = <<<<"t", "e", "x", "t">>, <<>>, <<"@", "p", "a", "r", "a", "m", " ", "a">>,
          <<>>, <<"@", "r", "e", "t", "u", "r", "n">>>>

-----------------------------------------------------------------------------
(* What alignTags leaves alone.                                            *)

\* the non-empty space-separated columns of a line
wordsOf(s) == SelectSeq(splitSpace(s), LAMBDA c : c # <<>>)

\* a line alignTags formats: a tag line that is not an @author line
formattedLine(s) ==
    startswith(s, <<"@">>) /\ ~startswith(s, <<"@", "a", "u", "t", "h", "o", "r">>)

\* after holds the lines of before, one for one: the formatted lines with the
\* same columns, the others unchanged
SameColumns(before, after) ==
    /\ Len(after) = Len(before)
    /\ \A k \in 1..Len(before) :
          IF formattedLine(before[k])
          THEN wordsOf(after[k]) = wordsOf(before[k])
          ELSE after[k] = before[k]

\* C24: alignTags preserves the number and the order of the lines, leaves
\* every line that does not start with '@' and every '@author' line
\* unchanged, and in every other tag line changes only the spaces between the
\* columns: the non-empty space-separated columns of each line are the same
\* before and after the alignment.
C24_AlignTagsKeepsLinesAndColumns ==
    /\ pc \in {"aligned", "aligned_again"} => SameColumns(alignLines, alignedOnce)
    /\ pc = "aligned_again" => SameColumns(alignedOnce, alignedTwice)

\* a tag line was padded next to a description line and an @author line that
\* stayed as they were
C24_Witness_TagLinePaddedOthersKept ==
    /\ pc = "aligned"
    /\ \E k \in 1..Len(alignLines) :
          formattedLine(alignLines[k]) /\ alignedOnce[k] # alignLines[k]
    /\ \E k \in 1..Len(alignLines) : ~startswith(alignLines[k], <<"@">>)
    /\ \E k \in 1..Len(alignLines) :
          startswith(alignLines[k], <<"@", "a", "u", "t", "h", "o", "r">>)

=============================================================================
